---------------------------- MODULE Spec2Model ----------------------------
(***************************************************************************)
(* Model of the packet-to-session pipeline of the XAE kernel:              *)
(*   drivers/rtl8139.c  receive ring cursor, transmit slots                *)
(*   net/net.c          frame parsing, session table, reply construction   *)
(*   auth/auth.c        credential table, XOR cipher                       *)
(*   shell/shell.c      shell_execute_command (the command dispatcher)     *)
(* Bytes are integers 0..255, C strings are sequences of non-zero bytes,   *)
(* and a frame is the sequence of bytes the NIC placed in the ring.        *)
(***************************************************************************)
EXTENDS Integers, Sequences, FiniteSets, TLC

(* ------------------------------ bounds --------------------------------- *)
\* polls with a non-empty ring that one behaviour takes (caps rx_count)
MaxPolls == 5

(* --------------------------- integer widths ---------------------------- *)
U8 == 256
U16 == 65536

\* a 32-bit word is the pair <<high 16 bits, low 16 bits>>
W32(hi, lo) == <<hi, lo>>

\* (w + n) modulo 2^32, for 0 <= n < 2^31 - 2^16
Add32(w, n) ==
    LET s == w[2] + n
    IN <<(w[1] + (s \div U16)) % U16, s % U16>>

\* x & b # 0 for a single-bit mask b
HasBit(x, b) == (x \div b) % 2 = 1

RECURSIVE BitXor(_, _)
\* a ^ b on non-negative integers
BitXor(a, b) ==
    IF a = 0 THEN b
    ELSE IF b = 0 THEN a
    ELSE (((a % 2) + (b % 2)) % 2) + (2 * BitXor(a \div 2, b \div 2))

(* ------------------------------ string.c ------------------------------- *)
RECURSIVE TakeUntil(_, _, _)
\* the longest prefix of s, of at most max bytes, holding no byte of stop
TakeUntil(s, stop, max) ==
    IF s = <<>> \/ max = 0 \/ Head(s) \in stop THEN <<>>
    ELSE <<Head(s)>> \o TakeUntil(Tail(s), stop, max - 1)

\* the C string stored in a zero-filled buffer that holds the bytes s
CStr(s) == TakeUntil(s, {0}, Len(s))

strlen(s) == Len(CStr(s))

\* strcmp(a, b) == 0
strcmp_eq(a, b) == CStr(a) = CStr(b)

\* the string dest holds after strcpy(dest, src)
strcpy(src) == CStr(src)

\* strncmp(a, b, n) == 0
strncmp_eq(a, b, n) ==
    LET x == CStr(a)
        y == CStr(b)
        Pre(s) == SubSeq(s, 1, IF Len(s) < n THEN Len(s) ELSE n)
    IN Pre(x) = Pre(y)

\* whether sub occurs in s as a contiguous run of bytes
Contains(s, sub) ==
    \E k \in 0..(Len(s) - Len(sub)) : SubSeq(s, k + 1, k + Len(sub)) = sub

EndsWith(s, suf) ==
    /\ Len(s) >= Len(suf)
    /\ SubSeq(s, Len(s) - Len(suf) + 1, Len(s)) = suf

(* --------------------------- string literals --------------------------- *)
\* "XAE OS Login\nUsername: "
S_prompt == <<88, 65, 69, 32, 79, 83, 32, 76, 111, 103, 105, 110, 10, 85, 115, 101, 114, 110, 97, 109, 101, 58, 32>>
\* "\nWelcome to XAE OS!\n> "
S_welcome == <<10, 87, 101, 108, 99, 111, 109, 101, 32, 116, 111, 32, 88, 65, 69, 32, 79, 83, 33, 10, 62, 32>>
\* "\nAuthentication failed!\nUsername: "
S_fail == <<10, 65, 117, 116, 104, 101, 110, 116, 105, 99, 97, 116, 105, 111, 110, 32, 102, 97, 105, 108, 101, 100, 33, 10, 85, 115, 101, 114, 110, 97, 109, 101, 58, 32>>
\* "admin", "admin123", "user", "password"
S_admin == <<97, 100, 109, 105, 110>>
S_admin123 == <<97, 100, 109, 105, 110, 49, 50, 51>>
S_user == <<117, 115, 101, 114>>
S_password == <<112, 97, 115, 115, 119, 111, 114, 100>>
\* "\nExecuting: ", "\n", "> "
S_executing == <<10, 69, 120, 101, 99, 117, 116, 105, 110, 103, 58, 32>>
S_nl == <<10>>
S_gt == <<62, 32>>
\* "Files in current directory:\n"
S_files == <<70, 105, 108, 101, 115, 32, 105, 110, 32, 99, 117, 114, 114, 101, 110, 116, 32, 100, 105, 114, 101, 99, 116, 111, 114, 121, 58, 10>>
\* "XAE Shell Commands:\n"
S_help1 == <<88, 65, 69, 32, 83, 104, 101, 108, 108, 32, 67, 111, 109, 109, 97, 110, 100, 115, 58, 10>>
\* "  ls, cd, mk, rm, edit, fun, sync, help\n"
S_help2 == <<32, 32, 108, 115, 44, 32, 99, 100, 44, 32, 109, 107, 44, 32, 114, 109, 44, 32, 101, 100, 105, 116, 44, 32, 102, 117, 110, 44, 32, 115, 121, 110, 99, 44, 32, 104, 101, 108, 112, 10>>
\* "Command not yet supported via network\n"
S_unsupported == <<67, 111, 109, 109, 97, 110, 100, 32, 110, 111, 116, 32, 121, 101, 116, 32, 115, 117, 112, 112, 111, 114, 116, 101, 100, 32, 118, 105, 97, 32, 110, 101, 116, 119, 111, 114, 107, 10>>
\* "ls", "help"
S_ls == <<108, 115>>
S_help == <<104, 101, 108, 112>>
\* ':', '\n', '\r', ' '
CH_COLON == 58
CH_LF == 10
CH_CR == 13
CH_SPACE == 32

(* ------------------------------- auth.c -------------------------------- *)
MAX_USERS == 5
HASH_MAGIC == 66
XOR_KEY == 66

\* encrypt_data that adds the key to every byte instead of XOR-ing it
encrypt_data_Add(data, key) == [k \in 1..Len(data) |-> (data[k] + key) % U8]

\* data[i] ^= key for every byte
encrypt_data(data, key) == [k \in 1..Len(data) |-> BitXor(data[k], key)]

decrypt_data(data, key) == encrypt_data(data, key)

\* the bytes auth_hash_password writes for the C string password:
\* hash_out[i] = password[i] ^ (i + 0x42), then the terminator
auth_hash_password(password) ==
    LET pw == CStr(password)
    IN [k \in 1..Len(pw) |-> (BitXor(pw[k], (k - 1) + HASH_MAGIC)) % U8]

NoUser == [username |-> <<>>, password |-> <<>>, active |-> 0]

\* auth_add_user that replaces the first account when the table is full
auth_add_user_Overwrite(tab, username, password) ==
    LET k == IF tab.num_users >= MAX_USERS THEN 0 ELSE tab.num_users
    IN [users |-> [tab.users EXCEPT ![k] =
                      [username |-> strcpy(username),
                       password |-> auth_hash_password(password),
                       active |-> 1]],
        num_users |-> IF tab.num_users >= MAX_USERS THEN tab.num_users
                      ELSE tab.num_users + 1]

\* the table and counter after auth_add_user(username, password)
auth_add_user(tab, username, password) ==
    IF tab.num_users >= MAX_USERS THEN tab
    ELSE [users |-> [tab.users EXCEPT ![tab.num_users] =
                        [username |-> strcpy(username),
                         password |-> auth_hash_password(password),
                         active |-> 1]],
          num_users |-> tab.num_users + 1]

\* the table after auth_init()
auth_init ==
    LET clear == [users |-> [k \in 0..(MAX_USERS - 1) |-> NoUser], num_users |-> 0]
    IN auth_add_user(auth_add_user(clear, S_admin, S_admin123), S_user, S_password)

\* auth_verify without the comparison of the password digest
auth_verify_UserOnly(utab, username, password) ==
    \E k \in 0..(MAX_USERS - 1) :
        /\ utab[k].active # 0
        /\ strcmp_eq(utab[k].username, username)

auth_verify(utab, username, password) ==
    LET hash == auth_hash_password(password)
    IN \E k \in 0..(MAX_USERS - 1) :
          /\ utab[k].active # 0
          /\ strcmp_eq(utab[k].username, username)
          /\ strcmp_eq(utab[k].password, hash)

(* ------------------------------ net.h ---------------------------------- *)
ETH_HLEN == 14
IP_HLEN == 20
TCP_HLEN == 20
TCP_FIN == 1
TCP_SYN == 2
TCP_RST == 4
TCP_PSH == 8
TCP_ACK == 16
ETHERTYPE_IPV4 == 2048
IPPROTO_TCP == 6
TELNET_PORT == 23
MY_IP_ADDR == W32(2560, 2)
NUM_SESSIONS == 5
INITIAL_SEQ == W32(0, 1000)

\* a 16-bit / 32-bit field as the x86 load reads it from the frame (offset from 0)
ReadU16(pkt, off) == pkt[off + 1] + (256 * pkt[off + 2])

ReadU32(pkt, off) == W32(ReadU16(pkt, off + 2), ReadU16(pkt, off))

htons(x) == ((x % 256) * 256) + ((x \div 256) % 256)

\* the four bytes of the word in reverse order
htonl(x) == W32(htons(x[2]), htons(x[1]))

\* header fields of an inbound frame, as net_process_packet reads them
eth_ethertype(pkt) == htons(ReadU16(pkt, 12))
ip_total_length(pkt) == htons(ReadU16(pkt, ETH_HLEN + 2))
ip_protocol(pkt) == pkt[ETH_HLEN + 9 + 1]
ip_src_ip(pkt) == htonl(ReadU32(pkt, ETH_HLEN + 12))
tcp_src_port(pkt) == htons(ReadU16(pkt, ETH_HLEN + IP_HLEN))
tcp_dest_port(pkt) == htons(ReadU16(pkt, ETH_HLEN + IP_HLEN + 2))
tcp_seq_num(pkt) == htonl(ReadU32(pkt, ETH_HLEN + IP_HLEN + 4))
tcp_data_offset(pkt) == pkt[ETH_HLEN + IP_HLEN + 12 + 1]
tcp_flags(pkt) == pkt[ETH_HLEN + IP_HLEN + 13 + 1]

(* --------------------------- net.c: net_checksum ----------------------- *)
RECURSIVE SumWords(_)
\* the 16-bit words of data as the x86 load reads them, added up; a last odd
\* byte is added as it is
SumWords(data) ==
    IF Len(data) = 0 THEN 0
    ELSE IF Len(data) = 1 THEN data[1]
    ELSE ReadU16(data, 0) + SumWords(SubSeq(data, 3, Len(data)))

RECURSIVE Fold16(_)
\* while (sum >> 16) sum = (sum & 0xFFFF) + (sum >> 16)
Fold16(sum) ==
    IF sum \div U16 = 0 THEN sum ELSE Fold16((sum % U16) + (sum \div U16))

\* net_checksum that leaves out a last odd byte
net_checksum_NoTail(data) ==
    (U16 - 1) - Fold16(SumWords(SubSeq(data, 1, (Len(data) \div 2) * 2)))

\* the uint16_t net_checksum returns for the bytes data: ~sum
net_checksum(data) == (U16 - 1) - Fold16(SumWords(data))

(* ----------------------------- rtl8139.c ------------------------------- *)
RX_RING_SIZE == 8192
RX_HEADER_SIZE == 4
MAX_FRAME == 1500
NUM_TX == 4
\* the I/O base a present device reports in BAR0
IoBase == 49152
\* slot mark of a frame rtl8139_send_packet rejected
NoSlot == 4

\* rtl8139_send_packet that always uses the slot it used last
rtl8139_send_packet_SameSlot(st, io_base, frame, length) ==
    IF io_base = 0 \/ length > MAX_FRAME
    THEN [st EXCEPT !.sent = Append(@, [frame EXCEPT !.slot = NoSlot])]
    ELSE [st EXCEPT !.sent = Append(@, [frame EXCEPT !.slot = st.tx_current])]

\* rtl8139_send_packet without the test of the length
rtl8139_send_packet_NoLimit(st, io_base, frame, length) ==
    IF io_base = 0
    THEN [st EXCEPT !.sent = Append(@, [frame EXCEPT !.slot = NoSlot])]
    ELSE [st EXCEPT !.sent = Append(@, [frame EXCEPT !.slot = st.tx_current]),
                    !.tx_current = (st.tx_current + 1) % NUM_TX]

\* st after rtl8139_send_packet(frame, length) with the device at io_base:
\* st.sent logs every frame handed over, with the slot it was written to
rtl8139_send_packet(st, io_base, frame, length) ==
    IF io_base = 0 \/ length > MAX_FRAME
    THEN [st EXCEPT !.sent = Append(@, [frame EXCEPT !.slot = NoSlot])]
    ELSE [st EXCEPT !.sent = Append(@, [frame EXCEPT !.slot = st.tx_current]),
                    !.tx_current = (st.tx_current + 1) % NUM_TX]

\* rx_offset after the frame whose header gives length was consumed
NextRxOffset(off, length) ==
    LET sum == off + length + RX_HEADER_SIZE + 3
        aligned == (sum - (sum % 4)) % U16
    IN IF aligned >= RX_RING_SIZE THEN aligned - RX_RING_SIZE ELSE aligned

\* RxFrameValid without the test of the receive-OK bit
RxFrameValid_NoStatus(rx_status, length) ==
    /\ length > 0
    /\ length < MAX_FRAME

\* whether the poll hands the frame to net_process_packet
RxFrameValid(rx_status, length) ==
    /\ HasBit(rx_status, 1)
    /\ length > 0
    /\ length < MAX_FRAME

(* ------------------------------- net.c --------------------------------- *)
NoSession == NUM_SESSIONS

\* a zeroed session_t after net_init()
EmptySession ==
    [client_ip |-> W32(0, 0), client_port |-> 0, seq_num |-> W32(0, 0), ack_num |-> W32(0, 0),
     authenticated |-> 0, active |-> 0, username |-> <<>>]

Slots == 0..(NUM_SESSIONS - 1)

\* net_get_session that compares the address only
net_get_session_IpOnly(sess, ip, port) ==
    LET hit == {k \in Slots : /\ sess[k].active # 0
                              /\ sess[k].client_ip = ip}
    IN IF hit = {} THEN NoSession ELSE CHOOSE k \in hit : \A m \in hit : k <= m

\* index of the first active slot with this ip and port, or NoSession
net_get_session(sess, ip, port) ==
    LET hit == {k \in Slots : /\ sess[k].active # 0
                              /\ sess[k].client_ip = ip
                              /\ sess[k].client_port = port}
    IN IF hit = {} THEN NoSession ELSE CHOOSE k \in hit : \A m \in hit : k <= m

\* net_create_session that takes slot 0 without testing its active flag
net_create_session_NoActiveCheck(st, ip, port) ==
    IF st.num_sessions >= NUM_SESSIONS
    THEN [st |-> st, idx |-> NoSession]
    ELSE [st |-> [st EXCEPT !.sessions[0].active = 1,
                            !.sessions[0].authenticated = 0,
                            !.sessions[0].client_ip = ip,
                            !.sessions[0].client_port = port,
                            !.sessions[0].seq_num = INITIAL_SEQ,
                            !.sessions[0].ack_num = W32(0, 0),
                            !.num_sessions = (st.num_sessions + 1) % U8],
          idx |-> 0]

\* net_create_session without the capacity test, counting before the search
net_create_session_NoLimit(st, ip, port) ==
    LET free == {k \in Slots : st.sessions[k].active = 0}
        counted == [st EXCEPT !.num_sessions = (st.num_sessions + 1) % U8]
    IN IF free = {}
       THEN [st |-> counted, idx |-> NoSession]
       ELSE LET i == CHOOSE k \in free : \A m \in free : k <= m
            IN [st |-> [counted EXCEPT !.sessions[i].active = 1,
                                       !.sessions[i].authenticated = 0,
                                       !.sessions[i].client_ip = ip,
                                       !.sessions[i].client_port = port,
                                       !.sessions[i].seq_num = INITIAL_SEQ,
                                       !.sessions[i].ack_num = W32(0, 0)],
                idx |-> i]

\* net_create_session that reuses slot 0 when the table is full
net_create_session_Evict(st, ip, port) ==
    LET free == {k \in Slots : st.sessions[k].active = 0}
        i == IF free = {} THEN 0 ELSE CHOOSE k \in free : \A m \in free : k <= m
    IN [st |-> [st EXCEPT !.sessions[i].active = 1,
                          !.sessions[i].authenticated = 0,
                          !.sessions[i].client_ip = ip,
                          !.sessions[i].client_port = port,
                          !.sessions[i].seq_num = INITIAL_SEQ,
                          !.sessions[i].ack_num = W32(0, 0),
                          !.num_sessions = IF free = {} THEN st.num_sessions
                                           ELSE (st.num_sessions + 1) % U8],
        idx |-> i]

\* net_create_session that does not count the session it creates
net_create_session_NoCount(st, ip, port) ==
    LET free == {k \in Slots : st.sessions[k].active = 0}
    IN IF st.num_sessions >= NUM_SESSIONS \/ free = {}
       THEN [st |-> st, idx |-> NoSession]
       ELSE LET i == CHOOSE k \in free : \A m \in free : k <= m
            IN [st |-> [st EXCEPT !.sessions[i].active = 1,
                                  !.sessions[i].authenticated = 0,
                                  !.sessions[i].client_ip = ip,
                                  !.sessions[i].client_port = port,
                                  !.sessions[i].seq_num = INITIAL_SEQ,
                                  !.sessions[i].ack_num = W32(0, 0)],
                idx |-> i]

\* [st, idx]: the table after net_create_session(ip, port) and the slot it returns
net_create_session(st, ip, port) ==
    LET free == {k \in Slots : st.sessions[k].active = 0}
    IN IF st.num_sessions >= NUM_SESSIONS \/ free = {}
       THEN [st |-> st, idx |-> NoSession]
       ELSE LET i == CHOOSE k \in free : \A m \in free : k <= m
            IN [st |-> [st EXCEPT !.sessions[i].active = 1,
                                  !.sessions[i].authenticated = 0,
                                  !.sessions[i].client_ip = ip,
                                  !.sessions[i].client_port = port,
                                  !.sessions[i].seq_num = INITIAL_SEQ,
                                  !.sessions[i].ack_num = W32(0, 0),
                                  !.num_sessions = (st.num_sessions + 1) % U8],
                idx |-> i]

\* net_send_tcp that leaves seq_num as it was
net_send_tcp_NoAdvance(st, io_base, i, data) ==
    LET s == st.sessions[i]
        data_len == Len(data) % U16
        total_len == (ETH_HLEN + IP_HLEN + TCP_HLEN + data_len) % U16
        frame == [slot |-> NoSlot,
                  dest_ip |-> s.client_ip,
                  dest_port |-> s.client_port,
                  src_port |-> TELNET_PORT,
                  seq_num |-> s.seq_num,
                  ack_num |-> s.ack_num,
                  flags |-> TCP_PSH + TCP_ACK,
                  data |-> SubSeq(data, 1, data_len)]
    IN rtl8139_send_packet(st, io_base, frame, total_len)

\* net_send_tcp that marks its frames SYN|ACK
net_send_tcp_SynAck(st, io_base, i, data) ==
    LET s == st.sessions[i]
        data_len == Len(data) % U16
        total_len == (ETH_HLEN + IP_HLEN + TCP_HLEN + data_len) % U16
        frame == [slot |-> NoSlot,
                  dest_ip |-> s.client_ip,
                  dest_port |-> s.client_port,
                  src_port |-> TELNET_PORT,
                  seq_num |-> s.seq_num,
                  ack_num |-> s.ack_num,
                  flags |-> TCP_SYN + TCP_ACK,
                  data |-> SubSeq(data, 1, data_len)]
        st1 == rtl8139_send_packet(st, io_base, frame, total_len)
    IN [st1 EXCEPT !.sessions[i].seq_num = Add32(s.seq_num, data_len)]

\* st after net_send_tcp(&sessions[i], data, strlen(data))
net_send_tcp(st, io_base, i, data) ==
    LET s == st.sessions[i]
        data_len == Len(data) % U16
        total_len == (ETH_HLEN + IP_HLEN + TCP_HLEN + data_len) % U16
        frame == [slot |-> NoSlot,
                  dest_ip |-> s.client_ip,
                  dest_port |-> s.client_port,
                  src_port |-> TELNET_PORT,
                  seq_num |-> s.seq_num,
                  ack_num |-> s.ack_num,
                  flags |-> TCP_PSH + TCP_ACK,
                  data |-> SubSeq(data, 1, data_len)]
        st1 == rtl8139_send_packet(st, io_base, frame, total_len)
    IN [st1 EXCEPT !.sessions[i].seq_num = Add32(s.seq_num, data_len)]

RECURSIVE SendAll(_, _, _, _)
\* st after shell_net_print(session, m) for each m of msgs, in order
SendAll(st, io_base, i, msgs) ==
    IF msgs = <<>> THEN st
    ELSE SendAll(net_send_tcp(st, io_base, i, Head(msgs)), io_base, i, Tail(msgs))

(* ------------------------------ shell.c -------------------------------- *)
CMD_BUFFER_SIZE == 256

RECURSIVE SkipSpaces(_)
\* while (*token == ' ') token++
SkipSpaces(s) ==
    IF s # <<>> /\ Head(s) = CH_SPACE THEN SkipSpaces(Tail(s)) ELSE s

\* the strings shell_execute_command prints to the session, in order
ShellReplies(cmd) ==
    LET buffer == TakeUntil(cmd, {0, CH_LF, CH_CR}, CMD_BUFFER_SIZE - 1)
        token == SkipSpaces(buffer)
        echo == <<S_executing, buffer, S_nl>>
    IN IF token = <<>> THEN echo \o <<S_gt>>
       ELSE IF strncmp_eq(token, S_ls, 2) THEN echo \o <<S_files, S_gt>>
       ELSE IF strncmp_eq(token, S_help, 4) THEN echo \o <<S_help1, S_help2, S_gt>>
       ELSE echo \o <<S_unsupported, S_gt>>

\* st after shell_execute_command(cmd, &sessions[i])
shell_execute_command(st, io_base, cmd, i) ==
    SendAll([st EXCEPT !.dispatch = Append(@, [cmd |-> cmd, slot |-> i])],
            io_base, i, ShellReplies(cmd))

(* ----------------------- net.c: net_process_packet --------------------- *)
\* payload_len = htons(ip->total_length) - sizeof(ip_header_t) - data_offset
PayloadLen(pkt) ==
    (ip_total_length(pkt) - IP_HLEN - ((tcp_data_offset(pkt) \div 16) * 4)) % U16

\* the payload_len bytes at (uint8_t*)tcp + data_offset
PayloadBytes(pkt) ==
    LET start == ETH_HLEN + IP_HLEN + ((tcp_data_offset(pkt) \div 16) * 4)
    IN [k \in 1..PayloadLen(pkt) |-> pkt[start + k]]

\* the username[] and password[] C strings parsed from the decrypted payload
ParseUsername(payload) == CStr(TakeUntil(payload, {CH_COLON}, 31))

\* ParsePassword that does not stop at the newline
ParsePassword_KeepNewline(payload) ==
    LET i == Len(TakeUntil(payload, {CH_COLON}, 31)) + 1
    IN CStr(TakeUntil(SubSeq(payload, i + 1, Len(payload)), {}, 63))

ParsePassword(payload) ==
    LET i == Len(TakeUntil(payload, {CH_COLON}, 31)) + 1
    IN CStr(TakeUntil(SubSeq(payload, i + 1, Len(payload)), {CH_LF}, 63))

\* the cmd[] C string copied from the decrypted payload
ParseCommand(payload) ==
    CStr(SubSeq(payload, 1, IF Len(payload) < 255 THEN Len(payload) ELSE 255))

\* HandleLogin that closes the session on a failed login
HandleLogin_Lockout(st, io_base, utab, i, payload) ==
    LET username == ParseUsername(payload)
        password == ParsePassword(payload)
        st1 == [st EXCEPT !.verify = Append(@, [username |-> username,
                                                password |-> password])]
    IN IF auth_verify(utab, username, password)
       THEN net_send_tcp([st1 EXCEPT !.sessions[i].authenticated = 1,
                                     !.sessions[i].username = strcpy(username)],
                         io_base, i, S_welcome)
       ELSE [net_send_tcp(st1, io_base, i, S_fail) EXCEPT !.sessions[i].active = 0]

\* HandleLogin that calls auth_verify a second time before it replies
HandleLogin_VerifyTwice(st, io_base, utab, i, payload) ==
    LET username == ParseUsername(payload)
        password == ParsePassword(payload)
        call == [username |-> username, password |-> password]
        st1 == [st EXCEPT !.verify = Append(Append(@, call), call)]
    IN IF auth_verify(utab, username, password)
       THEN net_send_tcp([st1 EXCEPT !.sessions[i].authenticated = 1,
                                     !.sessions[i].username = strcpy(username)],
                         io_base, i, S_welcome)
       ELSE net_send_tcp(st1, io_base, i, S_fail)

\* HandleLogin that logs in every session of the client's address
HandleLogin_SameAddress(st, io_base, utab, i, payload) ==
    LET username == ParseUsername(payload)
        password == ParsePassword(payload)
        st1 == [st EXCEPT !.verify = Append(@, [username |-> username,
                                                password |-> password])]
    IN IF auth_verify(utab, username, password)
       THEN net_send_tcp([st1 EXCEPT !.sessions =
                             [k \in Slots |->
                                 IF @[k].active # 0 /\ @[k].client_ip = @[i].client_ip
                                 THEN [@[k] EXCEPT !.authenticated = 1,
                                                   !.username = strcpy(username)]
                                 ELSE @[k]]],
                         io_base, i, S_welcome)
       ELSE net_send_tcp(st1, io_base, i, S_fail)

\* the login branch: session i is not authenticated
HandleLogin(st, io_base, utab, i, payload) ==
    LET username == ParseUsername(payload)
        password == ParsePassword(payload)
        st1 == [st EXCEPT !.verify = Append(@, [username |-> username,
                                                password |-> password])]
    IN IF auth_verify(utab, username, password)
       THEN net_send_tcp([st1 EXCEPT !.sessions[i].authenticated = 1,
                                     !.sessions[i].username = strcpy(username)],
                         io_base, i, S_welcome)
       ELSE net_send_tcp(st1, io_base, i, S_fail)

\* HandleData without the test of session->authenticated
HandleData_NoGate(st, io_base, utab, i, pkt) ==
    LET payload_len == PayloadLen(pkt)
        st1 == [st EXCEPT !.sessions[i].ack_num = Add32(tcp_seq_num(pkt), payload_len)]
        payload == decrypt_data(PayloadBytes(pkt), XOR_KEY)
    IN shell_execute_command(st1, io_base, ParseCommand(payload), i)

\* the data branch: session i exists and the frame has PSH
HandleData(st, io_base, utab, i, pkt) ==
    LET payload_len == PayloadLen(pkt)
        st1 == [st EXCEPT !.sessions[i].ack_num = Add32(tcp_seq_num(pkt), payload_len)]
        payload == decrypt_data(PayloadBytes(pkt), XOR_KEY)
    IN IF st1.sessions[i].authenticated = 0
       THEN HandleLogin(st1, io_base, utab, i, payload)
       ELSE shell_execute_command(st1, io_base, ParseCommand(payload), i)

\* HandleSyn that leaves ack_num as net_create_session set it
HandleSyn_NoAck(st, io_base, pkt) ==
    LET c == net_create_session(st, ip_src_ip(pkt), tcp_src_port(pkt))
    IN IF c.idx = NoSession THEN c.st
       ELSE net_send_tcp(c.st, io_base, c.idx, S_prompt)

\* the SYN branch for an identity without a session
HandleSyn(st, io_base, pkt) ==
    LET c == net_create_session(st, ip_src_ip(pkt), tcp_src_port(pkt))
    IN IF c.idx = NoSession THEN c.st
       ELSE net_send_tcp([c.st EXCEPT !.sessions[c.idx].ack_num = Add32(tcp_seq_num(pkt), 1)],
                         io_base, c.idx, S_prompt)

\* Rejected without the test of the destination port
Rejected_NoPort(pkt, length) ==
    \/ length < ETH_HLEN + IP_HLEN
    \/ eth_ethertype(pkt) # ETHERTYPE_IPV4
    \/ ip_protocol(pkt) # IPPROTO_TCP

\* whether net_process_packet returns before the session lookup
Rejected(pkt, length) ==
    \/ length < ETH_HLEN + IP_HLEN
    \/ eth_ethertype(pkt) # ETHERTYPE_IPV4
    \/ ip_protocol(pkt) # IPPROTO_TCP
    \/ tcp_dest_port(pkt) # TELNET_PORT

\* net_process_packet that frees the session of a client that sends RST or FIN
net_process_packet_Close(st, io_base, utab, pkt, length) ==
    IF Rejected(pkt, length) THEN st
    ELSE LET i == net_get_session(st.sessions, ip_src_ip(pkt), tcp_src_port(pkt))
         IN IF i # NoSession /\ (HasBit(tcp_flags(pkt), TCP_RST) \/ HasBit(tcp_flags(pkt), TCP_FIN))
            THEN [st EXCEPT !.sessions[i].active = 0,
                            !.num_sessions = (st.num_sessions - 1) % U8]
            ELSE IF HasBit(tcp_flags(pkt), TCP_SYN)
            THEN IF i = NoSession THEN HandleSyn(st, io_base, pkt) ELSE st
            ELSE IF i # NoSession /\ HasBit(tcp_flags(pkt), TCP_PSH)
                 THEN HandleData(st, io_base, utab, i, pkt)
                 ELSE st

\* net_process_packet that creates a session for every SYN without looking one up
net_process_packet_NoLookup(st, io_base, utab, pkt, length) ==
    IF Rejected(pkt, length) THEN st
    ELSE LET i == net_get_session(st.sessions, ip_src_ip(pkt), tcp_src_port(pkt))
         IN IF HasBit(tcp_flags(pkt), TCP_SYN)
            THEN HandleSyn(st, io_base, pkt)
            ELSE IF i # NoSession /\ HasBit(tcp_flags(pkt), TCP_PSH)
                 THEN HandleData(st, io_base, utab, i, pkt)
                 ELSE st

\* net_process_packet that treats a SYN of a known client as a data frame
net_process_packet_SynData(st, io_base, utab, pkt, length) ==
    IF Rejected(pkt, length) THEN st
    ELSE LET i == net_get_session(st.sessions, ip_src_ip(pkt), tcp_src_port(pkt))
         IN IF HasBit(tcp_flags(pkt), TCP_SYN) /\ i = NoSession
            THEN HandleSyn(st, io_base, pkt)
            ELSE IF i # NoSession /\ HasBit(tcp_flags(pkt), TCP_PSH)
                 THEN HandleData(st, io_base, utab, i, pkt)
                 ELSE st

\* net_process_packet that handles data frames without testing PSH
net_process_packet_NoPsh(st, io_base, utab, pkt, length) ==
    IF Rejected(pkt, length) THEN st
    ELSE LET i == net_get_session(st.sessions, ip_src_ip(pkt), tcp_src_port(pkt))
         IN IF HasBit(tcp_flags(pkt), TCP_SYN)
            THEN IF i = NoSession THEN HandleSyn(st, io_base, pkt) ELSE st
            ELSE IF i # NoSession
                 THEN HandleData(st, io_base, utab, i, pkt)
                 ELSE st

net_process_packet(st, io_base, utab, pkt, length) ==
    IF Rejected(pkt, length) THEN st
    ELSE LET i == net_get_session(st.sessions, ip_src_ip(pkt), tcp_src_port(pkt))
         IN IF HasBit(tcp_flags(pkt), TCP_SYN)
            THEN IF i = NoSession THEN HandleSyn(st, io_base, pkt) ELSE st
            ELSE IF i # NoSession /\ HasBit(tcp_flags(pkt), TCP_PSH)
                 THEN HandleData(st, io_base, utab, i, pkt)
                 ELSE st

(* ------------------------- frames on the wire -------------------------- *)
BE16(x) == <<(x \div 256) % 256, x % 256>>

BE32(x) == BE16(x[1]) \o BE16(x[2])

\* the bytes of the Ethernet II / IPv4 / TCP frame (no options) a client puts
\* on the wire for the fields f; the payload f.plain travels XOR-ed with key
MkFrame(f, key) ==
    <<82, 84, 0, 18, 52, 86>> \o <<2, 0, 0, 0, 0, 1>> \o BE16(f.ethertype)
      \o <<69, 0>> \o BE16(IP_HLEN + TCP_HLEN + Len(f.plain))
      \o <<0, 0, 0, 0, 64, f.protocol, 0, 0>>
      \o BE32(f.src_ip) \o BE32(MY_IP_ADDR)
      \o BE16(f.src_port) \o BE16(f.dest_port) \o BE32(f.seq) \o BE32(W32(0, 0))
      \o <<80, f.flags>> \o BE16(8192) \o <<0, 0, 0, 0>>
      \o encrypt_data(f.plain, key)

\* the length the NIC writes in the ring header for a frame it received whole:
\* the frame padded to the Ethernet minimum, plus the 4-byte CRC
RingLength(f) ==
    LET n == ETH_HLEN + IP_HLEN + TCP_HLEN + Len(f.plain)
    IN (IF n < 60 THEN 60 ELSE n) + 4

(* ------------------------------- state --------------------------------- *)
VARIABLES
    rtl8139_io_base,  \* 0 while the device is absent
    rx_offset,        \* RX cursor
    rx_count,         \* frames seen by rtl8139_handle_interrupt
    capr,             \* value last written to RTL8139_RXBUFPTR
    tx_current,       \* round-robin transmit slot index
    sessions,         \* session_t sessions[5]
    num_sessions,
    users,            \* user_t users[MAX_USERS]
    num_users,
    ev                \* what the last poll read, called and handed to the driver

\* bookkeeping outside the C state
VARIABLES
    pc,               \* position of rtl8139_init: "init", "reset" or "done"
    reset_polls,      \* reads of the CMD register in the reset wait, modulo 2
    polls,            \* calls of rtl8139_handle_interrupt made by a driver harness
    probe             \* a function under test: its name, arguments and result

aux == <<pc, reset_polls, polls, probe>>

vars == <<rtl8139_io_base, rx_offset, rx_count, capr, tx_current,
          sessions, num_sessions, users, num_users, ev>>

\* the fields of a frame the code never looked at
NoFrame ==
    [ethertype |-> 0, protocol |-> 0, src_ip |-> W32(0, 0), src_port |-> 0,
     dest_port |-> 0, seq |-> W32(0, 0), flags |-> 0, plain |-> <<>>]

NoEvent ==
    [rx_status |-> 0, length |-> 0, delivered |-> FALSE, frame |-> NoFrame,
     sent |-> <<>>, verify |-> <<>>, dispatch |-> <<>>]

\* no function is under test
NoProbe == [fn |-> "none"]

\* after rtl8139_init (device found or not), net_init and auth_init
Init ==
    /\ rtl8139_io_base \in {0, IoBase}
    /\ rx_offset = 0
    /\ rx_count = 0
    /\ capr = 0
    /\ tx_current = 0
    /\ sessions = [k \in Slots |-> EmptySession]
    /\ num_sessions = 0
    /\ users = auth_init.users
    /\ num_users = auth_init.num_users
    /\ ev = NoEvent
    /\ pc = "done"
    /\ reset_polls = 0
    /\ polls = 0
    /\ probe = NoProbe

\* the state net_process_packet and its callees work on
NetState(sess, n, tx) ==
    [sessions |-> sess, num_sessions |-> n, tx_current |-> tx,
     sent |-> <<>>, verify |-> <<>>, dispatch |-> <<>>]

\* Poll without the test of rtl8139_io_base
Poll_NoDeviceCheck(inp, maxPolls) ==
    /\ rx_count < maxPolls
    /\ IF inp.empty
       THEN UNCHANGED vars
       ELSE LET delivered == RxFrameValid(inp.rx_status, inp.length)
                st0 == NetState(sessions, num_sessions, tx_current)
                st1 == IF delivered
                       THEN net_process_packet(st0, rtl8139_io_base, users,
                                               MkFrame(inp.frame, XOR_KEY),
                                               (inp.length - RX_HEADER_SIZE) % U16)
                       ELSE st0
            IN /\ sessions' = st1.sessions
               /\ num_sessions' = st1.num_sessions
               /\ tx_current' = st1.tx_current
               /\ rx_offset' = NextRxOffset(rx_offset, inp.length)
               /\ capr' = (NextRxOffset(rx_offset, inp.length) - 16) % U16
               /\ rx_count' = rx_count + 1
               /\ ev' = [rx_status |-> inp.rx_status, length |-> inp.length,
                         delivered |-> delivered,
                         frame |-> IF delivered THEN inp.frame ELSE NoFrame,
                         sent |-> st1.sent, verify |-> st1.verify,
                         dispatch |-> st1.dispatch]
               /\ UNCHANGED <<rtl8139_io_base, users, num_users>>

\* one call of rtl8139_handle_interrupt; inp is what the hardware shows:
\* the ring-empty flag, the 4-byte header at the cursor and the frame after it
Poll(inp, maxPolls) ==
    /\ rx_count < maxPolls
    /\ IF rtl8139_io_base = 0 \/ inp.empty
       THEN UNCHANGED vars
       ELSE LET delivered == RxFrameValid(inp.rx_status, inp.length)
                st0 == NetState(sessions, num_sessions, tx_current)
                st1 == IF delivered
                       THEN net_process_packet(st0, rtl8139_io_base, users,
                                               MkFrame(inp.frame, XOR_KEY),
                                               (inp.length - RX_HEADER_SIZE) % U16)
                       ELSE st0
            IN /\ sessions' = st1.sessions
               /\ num_sessions' = st1.num_sessions
               /\ tx_current' = st1.tx_current
               /\ rx_offset' = NextRxOffset(rx_offset, inp.length)
               /\ capr' = (NextRxOffset(rx_offset, inp.length) - 16) % U16
               /\ rx_count' = rx_count + 1
               /\ ev' = [rx_status |-> inp.rx_status, length |-> inp.length,
                         delivered |-> delivered,
                         frame |-> IF delivered THEN inp.frame ELSE NoFrame,
                         sent |-> st1.sent, verify |-> st1.verify,
                         dispatch |-> st1.dispatch]
               /\ UNCHANGED <<rtl8139_io_base, users, num_users>>

(* ------------------------------- inputs -------------------------------- *)
\* polls with a non-empty ring in one behaviour of SpecFull and of SpecRing
MaxPollsFull == 6
MaxPollsRing == 3

\* the clients: 10.0.0.1 and 10.0.0.3
IP_A == W32(2560, 1)
IP_B == W32(2560, 3)
SEQ_HIGH == W32(65535, 65535)
SEQ_LOW == W32(0, 500)
SEQ_DATA == W32(0, 501)

\* "admin:admin123\n", "user:password\n", "admin:wrong\n", "ls\n"
P_admin == S_admin \o <<CH_COLON>> \o S_admin123 \o <<CH_LF>>
P_user == S_user \o <<CH_COLON>> \o S_password \o <<CH_LF>>
P_wrong == S_admin \o <<CH_COLON>> \o <<119, 114, 111, 110, 103>> \o <<CH_LF>>
P_ls == S_ls \o <<CH_LF>>

ID_A == <<IP_A, 1025>>
ID_B == <<IP_B, 1025>>

\* a TCP frame for the listening port; like every frame of the model it is
\* well formed: IHL 5, data offset 5, total length that of the bytes sent
Telnet(id, seq, flags, plain) ==
    [ethertype |-> ETHERTYPE_IPV4, protocol |-> IPPROTO_TCP,
     src_ip |-> id[1], src_port |-> id[2], dest_port |-> TELNET_PORT,
     seq |-> seq, flags |-> flags, plain |-> plain]

\* f received whole and without error
Received(f) == [empty |-> FALSE, rx_status |-> 1, length |-> RingLength(f), frame |-> f]

RingEmpty == [empty |-> TRUE, rx_status |-> 0, length |-> 0, frame |-> NoFrame]

\* a ring entry the poll skips: status and length are what the header holds
Skipped(rx_status, length) ==
    [empty |-> FALSE, rx_status |-> rx_status, length |-> length, frame |-> NoFrame]

\* frames for another protocol or port, otherwise a SYN of B or a login of A:
\* ethertype ARP (0x0806), IP protocol UDP (17), destination port 80
ForeignFrames ==
    {[Telnet(ID_B, SEQ_LOW, TCP_SYN, <<>>) EXCEPT !.ethertype = 2054],
     [Telnet(ID_A, SEQ_DATA, TCP_PSH + TCP_ACK, P_admin) EXCEPT !.protocol = 17],
     [Telnet(ID_A, SEQ_DATA, TCP_PSH + TCP_ACK, P_admin) EXCEPT !.dest_port = 80]}

Frames ==
    {Telnet(ID_A, SEQ_HIGH, TCP_SYN, <<>>),
     Telnet(ID_B, SEQ_LOW, TCP_SYN, <<>>),
     Telnet(ID_A, SEQ_DATA, TCP_PSH + TCP_ACK, P_admin),
     Telnet(ID_A, SEQ_DATA, TCP_PSH + TCP_ACK, P_wrong),
     Telnet(ID_A, SEQ_DATA, TCP_PSH + TCP_ACK, P_ls),
     Telnet(ID_B, SEQ_DATA, TCP_PSH + TCP_ACK, P_user),
     Telnet(ID_A, SEQ_DATA, TCP_SYN + TCP_PSH + TCP_ACK, P_admin),
     Telnet(ID_A, SEQ_DATA, TCP_ACK, P_admin)}
      \cup ForeignFrames

Inputs == {Received(f) : f \in Frames} \cup {RingEmpty, Skipped(0, 64)}

Next == (\E inp \in Inputs : Poll(inp, MaxPolls)) /\ UNCHANGED aux

Spec == Init /\ [][Next]_<<vars, aux>>

\* six clients that only connect, and one that also logs in
FullIdentities == {<<ip, port>> : ip \in {IP_A, IP_B}, port \in {1025, 1026, 1027}}

InputsFull ==
    {Received(Telnet(id, SEQ_LOW, TCP_SYN, <<>>)) : id \in FullIdentities}
      \cup {Received(Telnet(ID_A, SEQ_DATA, TCP_PSH + TCP_ACK, P_admin))}

NextFull == (\E inp \in InputsFull : Poll(inp, MaxPollsFull)) /\ UNCHANGED aux

SpecFull == Init /\ [][NextFull]_<<vars, aux>>

\* ring headers of every kind, in front of a SYN or of a foreign frame
RingLengths == {0, 3, 20, 64, 1499, 1500, 16380, 65535}

InputsRing ==
    {[empty |-> FALSE, rx_status |-> 1, length |-> n, frame |-> f] :
        n \in {m \in RingLengths : RxFrameValid(1, m)},
        f \in {Telnet(ID_A, SEQ_LOW, TCP_SYN, <<>>),
               [Telnet(ID_B, SEQ_LOW, TCP_SYN, <<>>) EXCEPT !.ethertype = 2054]}}
      \cup {Skipped(1, n) : n \in {m \in RingLengths : ~RxFrameValid(1, m)}}
      \cup {Skipped(0, n) : n \in RingLengths}
      \cup {RingEmpty}

NextRing == (\E inp \in InputsRing : Poll(inp, MaxPollsRing)) /\ UNCHANGED aux

SpecRing == Init /\ [][NextRing]_<<vars, aux>>

(* ------------------------- the driver's transmit side ------------------ *)
\* calls of rtl8139_send_packet in one behaviour of SpecTx
MaxSends == 6

\* lengths handed to rtl8139_send_packet: a minimum frame, the largest accepted
\* length and the smallest rejected one
TxLengths == {60, MAX_FRAME, MAX_FRAME + 1}

\* a buffer of length bytes handed to the driver by a caller other than net_send_tcp
RawFrame(length) == [slot |-> NoSlot, length |-> length]

\* one call rtl8139_send_packet(data, length); ev.sent keeps every call since init
Send(length) ==
    /\ pc = "done"
    /\ Len(ev.sent) < MaxSends
    /\ LET st0 == [NetState(sessions, num_sessions, tx_current) EXCEPT !.sent = ev.sent]
           st1 == rtl8139_send_packet(st0, rtl8139_io_base, RawFrame(length), length)
       IN /\ tx_current' = st1.tx_current
          /\ ev' = [ev EXCEPT !.sent = st1.sent]
    /\ UNCHANGED <<rtl8139_io_base, rx_offset, rx_count, capr,
                   sessions, num_sessions, users, num_users>>
    /\ UNCHANGED aux

NextTx == \E length \in TxLengths : Send(length)

SpecTx == Init /\ [][NextTx]_<<vars, aux>>

(* --------------------------- functions under test ---------------------- *)
\* longest byte sequence given to a function under test
MaxLen == 3

\* byte values that cover the all-zero, all-one, low-bit, high-bit and key patterns
ProbeBytes == {0, 1, 66, 128, 255}

RECURSIVE SeqsUpTo(_, _)
\* the sequences over S of length at most n
SeqsUpTo(S, n) ==
    IF n = 0 THEN {<<>>}
    ELSE LET shorter == SeqsUpTo(S, n - 1)
         IN shorter \cup {Append(s, x) : s \in {t \in shorter : Len(t) = n - 1}, x \in S}

\* the system at rest while a function is applied on its own
Idle ==
    /\ rtl8139_io_base = 0
    /\ rx_offset = 0
    /\ rx_count = 0
    /\ capr = 0
    /\ tx_current = 0
    /\ sessions = [k \in Slots |-> EmptySession]
    /\ num_sessions = 0
    /\ users = auth_init.users
    /\ num_users = auth_init.num_users
    /\ ev = NoEvent
    /\ reset_polls = 0
    /\ polls = 0

\* the arguments of encrypt_data / decrypt_data: a buffer and a one-byte key
InitCipher ==
    /\ Idle
    /\ pc = "done"
    /\ probe \in {[fn |-> "cipher", data |-> p, key |-> k, done |-> FALSE] :
                     p \in SeqsUpTo(ProbeBytes, MaxLen), k \in ProbeBytes}

\* encrypt_data(data, length, key) followed by decrypt_data(data, length, key)
ApplyCipher ==
    /\ probe.fn = "cipher"
    /\ ~probe.done
    /\ probe' = [fn |-> "cipher", data |-> probe.data, key |-> probe.key, done |-> TRUE,
                 encrypted |-> encrypt_data(probe.data, probe.key),
                 decrypted |-> decrypt_data(encrypt_data(probe.data, probe.key), probe.key)]
    /\ UNCHANGED <<vars, pc, reset_polls, polls>>

SpecCipher == InitCipher /\ [][ApplyCipher]_<<vars, aux>>

\* data with bit b of its i-th byte flipped
FlipBit(data, i, b) == [data EXCEPT ![i] = BitXor(@, 2 ^ b)]

\* the argument of net_checksum
InitChecksum ==
    /\ Idle
    /\ pc = "done"
    /\ probe \in {[fn |-> "checksum", data |-> p, done |-> FALSE] :
                     p \in SeqsUpTo(ProbeBytes, MaxLen)}

\* net_checksum over the buffer, over the same bytes again, and over every
\* buffer that differs from it in one bit
ApplyChecksum ==
    /\ probe.fn = "checksum"
    /\ ~probe.done
    /\ probe' = [fn |-> "checksum", data |-> probe.data, done |-> TRUE,
                 sum |-> net_checksum(probe.data),
                 again |-> net_checksum([k \in 1..Len(probe.data) |-> probe.data[k]]),
                 flipped |-> [i \in 1..Len(probe.data) |->
                                [b \in 0..7 |-> net_checksum(FlipBit(probe.data, i, b))]]]
    /\ UNCHANGED <<vars, pc, reset_polls, polls>>

SpecChecksum == InitChecksum /\ [][ApplyChecksum]_<<vars, aux>>

(* ------------------------------ rtl8139_init --------------------------- *)
\* calls of rtl8139_handle_interrupt in one behaviour of SpecBoot
MaxPollsBoot == 3

RTL8139_CMD_RESET == 16

\* before rtl8139_init: the statics hold their initialisers
InitBoot ==
    /\ Idle
    /\ pc = "init"
    /\ probe = NoProbe

\* rtl8139_init up to the reset command: the search on the PCI bus, and for a
\* device that was found the I/O base, bus mastering, power-on and reset
FindDevice(found) ==
    /\ pc = "init"
    /\ IF found
       THEN rtl8139_io_base' = IoBase /\ pc' = "reset"
       ELSE rtl8139_io_base' = rtl8139_io_base /\ pc' = "done"
    /\ UNCHANGED <<rx_offset, rx_count, capr, tx_current, sessions, num_sessions,
                   users, num_users, ev, reset_polls, polls, probe>>

\* one test of the reset wait, cmd being the value the CMD register shows;
\* when the bit is clear the rest of rtl8139_init runs
ResetWait(cmd) ==
    /\ pc = "reset"
    /\ IF HasBit(cmd, RTL8139_CMD_RESET)
       THEN /\ reset_polls' = (reset_polls + 1) % 2
            /\ UNCHANGED <<pc, rx_offset, capr>>
       ELSE /\ pc' = "done"
            /\ rx_offset' = 0
            /\ capr' = 0
            /\ UNCHANGED reset_polls
    /\ UNCHANGED <<rtl8139_io_base, rx_count, tx_current, sessions, num_sessions,
                   users, num_users, ev, polls, probe>>

\* frames offered to the polls after init: a SYN and a login
InputsBoot ==
    {Received(Telnet(ID_A, SEQ_LOW, TCP_SYN, <<>>)),
     Received(Telnet(ID_A, SEQ_DATA, TCP_PSH + TCP_ACK, P_admin))}

\* a call of rtl8139_handle_interrupt after init, with a frame in the ring
BootPoll(inp) ==
    /\ pc = "done"
    /\ polls < MaxPollsBoot
    /\ Poll(inp, MaxPollsBoot)
    /\ polls' = polls + 1
    /\ UNCHANGED <<pc, reset_polls, probe>>

NextBoot ==
    \/ \E found \in BOOLEAN : FindDevice(found)
    \/ \E cmd \in {RTL8139_CMD_RESET, 0} : ResetWait(cmd)
    \/ \E inp \in InputsBoot : BootPoll(inp)
    \/ Send(60)

\* the processor keeps executing rtl8139_init until it returns
SpecBoot ==
    InitBoot /\ [][NextBoot]_<<vars, aux>>
      /\ WF_<<vars, aux>>((\E found \in BOOLEAN : FindDevice(found))
                            \/ (\E cmd \in {RTL8139_CMD_RESET, 0} : ResetWait(cmd)))

(* --------------------------- truncated frames -------------------------- *)
\* polls with a non-empty ring in one behaviour of SpecShort
MaxPollsShort == 3

\* the number of leading bytes of pkt that net_process_packet(pkt, length) reads
\* when the session table is sess: one past the highest offset it dereferences
ReadEnd(sess, pkt, length) ==
    IF length < ETH_HLEN + IP_HLEN THEN 0
    ELSE IF eth_ethertype(pkt) # ETHERTYPE_IPV4 THEN ETH_HLEN
    ELSE IF ip_protocol(pkt) # IPPROTO_TCP THEN ETH_HLEN + 10
    ELSE IF tcp_dest_port(pkt) # TELNET_PORT THEN ETH_HLEN + IP_HLEN + 4
    ELSE LET i == net_get_session(sess, ip_src_ip(pkt), tcp_src_port(pkt))
             flags_end == ETH_HLEN + IP_HLEN + 14
             payload_end == ETH_HLEN + IP_HLEN + ((tcp_data_offset(pkt) \div 16) * 4)
                              + PayloadLen(pkt)
         IN IF ~HasBit(tcp_flags(pkt), TCP_SYN) /\ i # NoSession
                /\ HasBit(tcp_flags(pkt), TCP_PSH) /\ payload_end > flags_end
            THEN payload_end
            ELSE flags_end

\* ring headers with status ROK whose length cuts the frame behind them short:
\* 3 (less than the CRC), 37 and 42 (inside the IP and TCP headers), 52 (before
\* the TCP flags), 58 (headers only), 64 (a minimum frame), or the whole frame
InputsShort ==
    {[empty |-> FALSE, rx_status |-> 1, length |-> n, frame |-> f] :
        n \in {3, 37, 42, 52, 58, 64},
        f \in {Telnet(ID_A, SEQ_LOW, TCP_SYN, <<>>),
               Telnet(ID_A, SEQ_DATA, TCP_PSH + TCP_ACK, P_admin)}}
      \cup {Received(Telnet(ID_A, SEQ_LOW, TCP_SYN, <<>>)),
            Received(Telnet(ID_A, SEQ_DATA, TCP_PSH + TCP_ACK, P_admin))}

NextShort == (\E inp \in InputsShort : Poll(inp, MaxPollsShort)) /\ UNCHANGED aux

SpecShort == Init /\ [][NextShort]_<<vars, aux>>

(* ------------------------- polls seen from outside --------------------- *)
\* calls of rtl8139_handle_interrupt in one behaviour of SpecWatch
MaxPollsWatch == 3

\* one call of rtl8139_handle_interrupt, counted in polls whatever the ring
\* held; probe keeps what the hardware showed to the call
WatchedPoll(inp) ==
    /\ polls < MaxPollsWatch
    /\ Poll(inp, MaxPollsWatch)
    /\ polls' = polls + 1
    /\ probe' = [fn |-> "poll", inp |-> inp]
    /\ UNCHANGED <<pc, reset_polls>>

NextWatch == \E inp \in InputsRing : WatchedPoll(inp)

SpecWatch == Init /\ [][NextWatch]_<<vars, aux>>

(* ------------------------------ auth_verify ---------------------------- *)
\* usernames given to auth_verify: the two registered ones, the empty string,
\* "root", "admi", "adminx" and "Admin"
VerifyNames ==
    {S_admin, S_user, <<>>, <<114, 111, 111, 116>>, <<97, 100, 109, 105>>,
     S_admin \o <<120>>, <<65, 100, 109, 105, 110>>}

\* passwords given to auth_verify: the two registered ones, the empty string,
\* "admin12", "admin124", "B", and registered passwords followed by 'J' (0x4A,
\* the byte that position 8 of the digest maps to zero) and by "Jx"
VerifyPasswords ==
    {S_admin123, S_password, <<>>,
     <<97, 100, 109, 105, 110, 49, 50>>, <<97, 100, 109, 105, 110, 49, 50, 52>>, <<66>>,
     S_admin123 \o <<74>>, S_admin123 \o <<74, 120>>, S_password \o <<74>>}

\* the arguments of auth_verify, with the table as auth_init left it
InitVerify ==
    /\ Idle
    /\ pc = "done"
    /\ probe \in {[fn |-> "verify", username |-> u, password |-> p, done |-> FALSE] :
                     u \in VerifyNames, p \in VerifyPasswords}

\* auth_verify(username, password)
ApplyVerify ==
    /\ probe.fn = "verify"
    /\ ~probe.done
    /\ probe' = [fn |-> "verify", username |-> probe.username, password |-> probe.password,
                 done |-> TRUE,
                 hash |-> auth_hash_password(probe.password),
                 result |-> auth_verify(users, probe.username, probe.password)]
    /\ UNCHANGED <<vars, pc, reset_polls, polls>>

SpecVerify == InitVerify /\ [][ApplyVerify]_<<vars, aux>>

(* ---------------------------- auth_add_user ---------------------------- *)
\* calls of auth_add_user after auth_init, and polls, in one behaviour of SpecUsers
MaxAdds == 5
MaxPollsUsers == 2

\* names and passwords given to auth_add_user: "root", "guest" and the
\* registered "admin"; "x" and "y"
AddNames == {<<114, 111, 111, 116>>, <<103, 117, 101, 115, 116>>, S_admin}
AddPasswords == {<<120>>, <<121>>}

\* one call auth_add_user(username, password) after auth_init; probe keeps the
\* arguments and the number of calls so far
AddUser(username, password) ==
    /\ probe.calls < MaxAdds
    /\ LET tab == auth_add_user([users |-> users, num_users |-> num_users],
                                username, password)
       IN /\ users' = tab.users
          /\ num_users' = tab.num_users
    /\ probe' = [fn |-> "add_user", username |-> username, password |-> password,
                 calls |-> probe.calls + 1]
    /\ UNCHANGED <<rtl8139_io_base, rx_offset, rx_count, capr, tx_current,
                   sessions, num_sessions, ev, pc, reset_polls, polls>>

\* after rtl8139_init, net_init and auth_init, before any call of auth_add_user
InitUsers ==
    /\ rtl8139_io_base = IoBase
    /\ rx_offset = 0
    /\ rx_count = 0
    /\ capr = 0
    /\ tx_current = 0
    /\ sessions = [k \in Slots |-> EmptySession]
    /\ num_sessions = 0
    /\ users = auth_init.users
    /\ num_users = auth_init.num_users
    /\ ev = NoEvent
    /\ pc = "done"
    /\ reset_polls = 0
    /\ polls = 0
    /\ probe = [fn |-> "add_user", username |-> <<>>, password |-> <<>>, calls |-> 0]

\* a client that connects and logs in as root with password x
InputsUsers ==
    {Received(Telnet(ID_A, SEQ_LOW, TCP_SYN, <<>>)),
     Received(Telnet(ID_A, SEQ_DATA, TCP_PSH + TCP_ACK, <<114, 111, 111, 116, CH_COLON, 120, CH_LF>>))}

NextUsers ==
    \/ \E u \in AddNames, p \in AddPasswords : AddUser(u, p)
    \/ (\E inp \in InputsUsers : Poll(inp, MaxPollsUsers)) /\ UNCHANGED aux

SpecUsers == InitUsers /\ [][NextUsers]_<<vars, aux>>

(* ------------------------- frames that end a connection ---------------- *)
\* polls with a non-empty ring in one behaviour of SpecClose
MaxPollsClose == 7

\* six clients that connect, and the RST and the FIN|ACK of the first of them
InputsClose ==
    {Received(Telnet(id, SEQ_LOW, TCP_SYN, <<>>)) : id \in FullIdentities}
      \cup {Received(Telnet(ID_A, SEQ_DATA, TCP_RST, <<>>)),
            Received(Telnet(ID_A, SEQ_DATA, TCP_FIN + TCP_ACK, <<>>))}

NextClose == (\E inp \in InputsClose : Poll(inp, MaxPollsClose)) /\ UNCHANGED aux

SpecClose == Init /\ [][NextClose]_<<vars, aux>>

(* ----------------------- the poll, statement by statement -------------- *)
\* calls of rtl8139_handle_interrupt in one behaviour of SpecSteps
MaxPollsSteps == 4

\* the poll loop of shell_run is between two calls
InitSteps ==
    /\ rtl8139_io_base \in {0, IoBase}
    /\ rx_offset = 0
    /\ rx_count = 0
    /\ capr = 0
    /\ tx_current = 0
    /\ sessions = [k \in Slots |-> EmptySession]
    /\ num_sessions = 0
    /\ users = auth_init.users
    /\ num_users = auth_init.num_users
    /\ ev = NoEvent
    /\ pc = "done"
    /\ reset_polls = 0
    /\ polls = 0
    /\ probe = [fn |-> "poll", at |-> "idle", inp |-> RingEmpty]

\* PollEnter that may begin while an earlier call has not returned
PollEnter_Reentrant(inp) ==
    /\ polls < MaxPollsSteps
    /\ polls' = polls + 1
    /\ IF rtl8139_io_base = 0 \/ inp.empty
       THEN /\ probe' = [fn |-> "poll", at |-> "idle", inp |-> inp]
            /\ UNCHANGED vars
       ELSE LET valid == RxFrameValid(inp.rx_status, inp.length)
            IN /\ rx_count' = rx_count + 1
               /\ ev' = [NoEvent EXCEPT !.rx_status = inp.rx_status,
                                        !.length = inp.length,
                                        !.delivered = valid]
               /\ probe' = [fn |-> "poll", inp |-> inp,
                            at |-> IF valid THEN "process" ELSE "advance"]
               /\ UNCHANGED <<rtl8139_io_base, rx_offset, capr, tx_current,
                              sessions, num_sessions, users, num_users>>
    /\ UNCHANGED <<pc, reset_polls>>

\* the call from the loop of shell_run, up to the test of the ring header: the
\* device and ring-empty tests, the header read and the validity test
PollEnter(inp) ==
    /\ probe.at = "idle"
    /\ polls < MaxPollsSteps
    /\ polls' = polls + 1
    /\ IF rtl8139_io_base = 0 \/ inp.empty
       THEN /\ probe' = [fn |-> "poll", at |-> "idle", inp |-> inp]
            /\ UNCHANGED vars
       ELSE LET valid == RxFrameValid(inp.rx_status, inp.length)
            IN /\ rx_count' = rx_count + 1
               /\ ev' = [NoEvent EXCEPT !.rx_status = inp.rx_status,
                                        !.length = inp.length,
                                        !.delivered = valid]
               /\ probe' = [fn |-> "poll", inp |-> inp,
                            at |-> IF valid THEN "process" ELSE "advance"]
               /\ UNCHANGED <<rtl8139_io_base, rx_offset, capr, tx_current,
                              sessions, num_sessions, users, num_users>>
    /\ UNCHANGED <<pc, reset_polls>>

\* the call net_process_packet(rx_buffer + rx_offset + 4, length - 4), with
\* every call it makes
PollProcess ==
    /\ probe.at = "process"
    /\ LET inp == probe.inp
           st1 == net_process_packet(NetState(sessions, num_sessions, tx_current),
                                     rtl8139_io_base, users, MkFrame(inp.frame, XOR_KEY),
                                     (inp.length - RX_HEADER_SIZE) % U16)
       IN /\ sessions' = st1.sessions
          /\ num_sessions' = st1.num_sessions
          /\ tx_current' = st1.tx_current
          /\ ev' = [ev EXCEPT !.frame = inp.frame, !.sent = st1.sent,
                              !.verify = st1.verify, !.dispatch = st1.dispatch]
    /\ probe' = [probe EXCEPT !.at = "advance"]
    /\ UNCHANGED <<rtl8139_io_base, rx_offset, rx_count, capr, users, num_users,
                   pc, reset_polls, polls>>

\* the cursor update and the write of RXBUFPTR, then the return
PollAdvance ==
    /\ probe.at = "advance"
    /\ rx_offset' = NextRxOffset(rx_offset, probe.inp.length)
    /\ capr' = (NextRxOffset(rx_offset, probe.inp.length) - 16) % U16
    /\ probe' = [probe EXCEPT !.at = "idle"]
    /\ UNCHANGED <<rtl8139_io_base, rx_count, tx_current, sessions, num_sessions,
                   users, num_users, ev, pc, reset_polls, polls>>

\* a client that connects, logs in and sends a command; a skipped ring entry
InputsSteps ==
    {Received(Telnet(ID_A, SEQ_LOW, TCP_SYN, <<>>)),
     Received(Telnet(ID_A, SEQ_DATA, TCP_PSH + TCP_ACK, P_admin)),
     Received(Telnet(ID_A, SEQ_DATA, TCP_PSH + TCP_ACK, P_ls)),
     Skipped(0, 64), RingEmpty}

NextSteps ==
    \/ \E inp \in InputsSteps : PollEnter(inp)
    \/ PollProcess
    \/ PollAdvance

SpecSteps == InitSteps /\ [][NextSteps]_<<vars, aux>>

(* --------------------- net.c: the bytes net_send_tcp builds ------------ *)
\* the 20 bytes of ip_header_t for a payload of data_len bytes to session s, ck
\* being the two bytes of the checksum field; a field assigned htons(x) or
\* htonl(x) lies in memory high byte first
IpHeaderOut(s, data_len, ck) ==
    <<69, 0>> \o BE16((IP_HLEN + TCP_HLEN + data_len) % U16) \o BE16(1234) \o <<0, 0>>
      \o <<64, IPPROTO_TCP>> \o ck \o BE32(MY_IP_ADDR) \o BE32(s.client_ip)

\* the 20 bytes of tcp_header_t followed by the payload
TcpSegmentOut(s, data, ck) ==
    BE16(TELNET_PORT) \o BE16(s.client_port) \o BE32(s.seq_num) \o BE32(s.ack_num)
      \o <<80, TCP_PSH + TCP_ACK>> \o BE16(8192) \o ck \o <<0, 0>> \o data

\* net_send_tcp_packet that stores both checksums high byte first
net_send_tcp_packet_SwappedSum(s, data) ==
    LET ip_ck == net_checksum(IpHeaderOut(s, Len(data), <<0, 0>>))
        tcp_ck == net_checksum(TcpSegmentOut(s, data, <<0, 0>>))
    IN <<255, 255, 255, 255, 255, 255>> \o <<82, 84, 0, 18, 52, 86>> \o BE16(ETHERTYPE_IPV4)
         \o IpHeaderOut(s, Len(data), <<ip_ck \div 256, ip_ck % 256>>)
         \o TcpSegmentOut(s, data, <<tcp_ck \div 256, tcp_ck % 256>>)

\* packet[] as net_send_tcp(s, data, Len(data)) hands it to the driver: the
\* Ethernet header (broadcast destination, my_mac, 0x0800), the IP header and
\* the TCP segment; each checksum is computed with its field zero and stored
\* as the x86 stores a uint16_t, low byte first
net_send_tcp_packet(s, data) ==
    LET ip_ck == net_checksum(IpHeaderOut(s, Len(data), <<0, 0>>))
        tcp_ck == net_checksum(TcpSegmentOut(s, data, <<0, 0>>))
    IN <<255, 255, 255, 255, 255, 255>> \o <<82, 84, 0, 18, 52, 86>> \o BE16(ETHERTYPE_IPV4)
         \o IpHeaderOut(s, Len(data), <<ip_ck % 256, ip_ck \div 256>>)
         \o TcpSegmentOut(s, data, <<tcp_ck % 256, tcp_ck \div 256>>)

\* sessions and payloads given to net_send_tcp on its own: clients 10.0.0.1 and
\* 192.168.1.1, low and high ports and numbers, payloads of even and odd length
InitBuild ==
    /\ Idle
    /\ pc = "done"
    /\ probe \in {[fn |-> "build", done |-> FALSE, data |-> data,
                   session |-> [client_ip |-> ip, client_port |-> port,
                                seq_num |-> seq, ack_num |-> ack]] :
                     ip \in {IP_A, W32(49320, 257)}, port \in {1025, 65535},
                     seq \in {INITIAL_SEQ, SEQ_HIGH}, ack \in {W32(0, 0), W32(1, 65535)},
                     data \in {<<>>, S_nl, S_gt, S_prompt, S_welcome, <<255, 255, 255>>}}

\* net_send_tcp(session, data, data_len) up to the call of the driver
ApplyBuild ==
    /\ probe.fn = "build"
    /\ ~probe.done
    /\ probe' = [probe EXCEPT !.done = TRUE] @@
                [packet |-> net_send_tcp_packet(probe.session, probe.data)]
    /\ UNCHANGED <<vars, pc, reset_polls, polls>>

SpecBuild == InitBuild /\ [][ApplyBuild]_<<vars, aux>>

(* ------------------- net.c: net_checksum, statement by statement ------- *)
\* the byte at offset k - 1 of a buffer: the bytes buf.data, then buf.fill up
\* to buf.length
ByteAt(buf, k) == IF k <= Len(buf.data) THEN buf.data[k] ELSE buf.fill

\* the arguments of net_checksum: every short buffer, and the longest buffers
\* a uint16_t length allows (65535 and 65534 bytes) holding 0xFF throughout;
\* sum is the uint32_t accumulator and carry records a carry out of its 32 bits
InitSum ==
    /\ Idle
    /\ pc = "done"
    /\ probe \in {[fn |-> "sum", buf |-> b, left |-> b.length, pos |-> 0,
                   sum |-> W32(0, 0), carry |-> FALSE, done |-> FALSE, result |-> 0] :
                     b \in {[data |-> p, fill |-> 0, length |-> Len(p)] :
                               p \in SeqsUpTo(ProbeBytes, MaxLen)}
                             \cup {[data |-> <<>>, fill |-> 255, length |-> n] :
                                      n \in {U16 - 1, U16 - 2}}}

\* SumWord with a uint16_t accumulator
SumWord_Narrow ==
    /\ probe.fn = "sum"
    /\ ~probe.done
    /\ probe.left > 1
    /\ LET word == ByteAt(probe.buf, probe.pos + 1) + (256 * ByteAt(probe.buf, probe.pos + 2))
       IN probe' = [probe EXCEPT !.sum = W32(0, (probe.sum[2] + word) % U16),
                                 !.carry = @ \/ (probe.sum[2] + word >= U16),
                                 !.pos = @ + 2,
                                 !.left = @ - 2]
    /\ UNCHANGED <<vars, pc, reset_polls, polls>>

\* one turn of while (length > 1) { sum += *data++; length -= 2; }
SumWord ==
    /\ probe.fn = "sum"
    /\ ~probe.done
    /\ probe.left > 1
    /\ LET word == ByteAt(probe.buf, probe.pos + 1) + (256 * ByteAt(probe.buf, probe.pos + 2))
       IN probe' = [probe EXCEPT !.sum = Add32(probe.sum, word),
                                 !.carry = @ \/ (probe.sum[1] + ((probe.sum[2] + word) \div U16) >= U16),
                                 !.pos = @ + 2,
                                 !.left = @ - 2]
    /\ UNCHANGED <<vars, pc, reset_polls, polls>>

\* the rest of net_checksum: the odd byte, the fold loop and return ~sum
SumReturn ==
    /\ probe.fn = "sum"
    /\ ~probe.done
    /\ probe.left <= 1
    /\ LET tail == IF probe.left = 1 THEN ByteAt(probe.buf, probe.pos + 1) ELSE 0
           sum == Add32(probe.sum, tail)
       IN probe' = [probe EXCEPT !.sum = sum,
                                 !.carry = @ \/ (probe.sum[1] + ((probe.sum[2] + tail) \div U16) >= U16),
                                 !.left = 0,
                                 !.done = TRUE,
                                 !.result = (U16 - 1) - Fold16(sum[2] + sum[1])]
    /\ UNCHANGED <<vars, pc, reset_polls, polls>>

NextSum == SumWord \/ SumReturn

SpecSum == InitSum /\ [][NextSum]_<<vars, aux>>

(* ----------------------- login lines of every length ------------------- *)
\* polls with a non-empty ring in one behaviour of SpecParse
MaxPollsParse == 2

\* a client that connects and sends a login line: a username of 0, 1, 30, 31,
\* 32 or 40 letters 'a' or "admin", a ':', a password of 0, 1, 62, 63, 64 or 70
\* letters 'b' or "admin123", and then "\n", nothing or "\r\n"
InputsParse ==
    {Received(Telnet(ID_A, SEQ_LOW, TCP_SYN, <<>>))}
      \cup {Received(Telnet(ID_A, SEQ_DATA, TCP_PSH + TCP_ACK, u \o <<CH_COLON>> \o p \o e)) :
               u \in {[k \in 1..n |-> 97] : n \in {0, 1, 30, 31, 32, 40}} \cup {S_admin},
               p \in {[k \in 1..n |-> 98] : n \in {0, 1, 62, 63, 64, 70}} \cup {S_admin123},
               e \in {<<CH_LF>>, <<>>, <<CH_CR, CH_LF>>}}

NextParse == (\E inp \in InputsParse : Poll(inp, MaxPollsParse)) /\ UNCHANGED aux

SpecParse == Init /\ [][NextParse]_<<vars, aux>>

(* ------------------ clients that share an address or a port ------------ *)
\* polls with a non-empty ring in one behaviour of SpecPairs
MaxPollsPairs == 4

\* 10.0.0.1:1025, 10.0.0.1:1026 and 10.0.0.3:1025: each connects, and sends
\* the login line of admin, the command ls, or a PSH|ACK frame without payload
InputsPairs ==
    {Received(Telnet(id, SEQ_LOW, TCP_SYN, <<>>)) : id \in {ID_A, <<IP_A, 1026>>, ID_B}}
      \cup {Received(Telnet(id, SEQ_DATA, TCP_PSH + TCP_ACK, p)) :
               id \in {ID_A, <<IP_A, 1026>>, ID_B}, p \in {P_admin, P_ls, <<>>}}

NextPairs == (\E inp \in InputsPairs : Poll(inp, MaxPollsPairs)) /\ UNCHANGED aux

SpecPairs == Init /\ [][NextPairs]_<<vars, aux>>

(* ------------------------ callers of the net.h interface --------------- *)
\* calls of net_send_tcp in one behaviour of SpecSend
MaxTcpSends == 4

\* net_create_session(ip, port) called for a client that has no session, as
\* net_process_packet calls it
CreateSession(id) ==
    /\ net_get_session(sessions, id[1], id[2]) = NoSession
    /\ LET c == net_create_session(NetState(sessions, num_sessions, tx_current), id[1], id[2])
       IN /\ sessions' = c.st.sessions
          /\ num_sessions' = c.st.num_sessions
    /\ UNCHANGED <<rtl8139_io_base, rx_offset, rx_count, capr, tx_current,
                   users, num_users, ev>>
    /\ UNCHANGED aux

\* net_send_tcp(&sessions[i], data, Len(data)) for an active session; ev.sent
\* keeps every frame handed to the driver since init
SendTcp(i, data) ==
    /\ sessions[i].active # 0
    /\ Len(ev.sent) < MaxTcpSends
    /\ LET st0 == [NetState(sessions, num_sessions, tx_current) EXCEPT !.sent = ev.sent]
           st1 == net_send_tcp(st0, rtl8139_io_base, i, data)
       IN /\ sessions' = st1.sessions
          /\ tx_current' = st1.tx_current
          /\ ev' = [ev EXCEPT !.sent = st1.sent]
    /\ UNCHANGED <<rtl8139_io_base, rx_offset, rx_count, capr, num_sessions,
                   users, num_users>>
    /\ UNCHANGED aux

\* two clients; payloads of 2 bytes, of 1446 bytes (a frame of 1500, the
\* largest the driver accepts) and of 1447 bytes (a frame of 1501)
NextSend ==
    \/ \E id \in {ID_A, ID_B} : CreateSession(id)
    \/ \E i \in Slots, data \in {S_gt} \cup {[k \in 1..n |-> 120] : n \in {1446, 1447}} :
          SendTcp(i, data)

SpecSend == Init /\ [][NextSend]_<<vars, aux>>

(* ------------------------ vocabulary of the claims --------------------- *)
\* the slots that hold an active session of the client (ip, port)
SessionsOf(sess, ip, port) ==
    {k \in Slots : /\ sess[k].active # 0
                   /\ sess[k].client_ip = ip
                   /\ sess[k].client_port = port}

\* the frame is IPv4, TCP and addressed to the listening port
ForTelnet(f) ==
    /\ f.ethertype = ETHERTYPE_IPV4
    /\ f.protocol = IPPROTO_TCP
    /\ f.dest_port = TELNET_PORT

\* the poll e handed over a frame that was received whole
Whole(e) == e.delivered /\ e.length = RingLength(e.frame)

IsSyn(f) == HasBit(f.flags, TCP_SYN)

\* a data frame: PSH set, SYN clear
IsData(f) == HasBit(f.flags, TCP_PSH) /\ ~HasBit(f.flags, TCP_SYN)

\* the accounts auth_init registers
Accounts == {<<S_admin, S_admin123>>, <<S_user, S_password>>}

LoginLine(acc) == acc[1] \o <<CH_COLON>> \o acc[2] \o <<CH_LF>>

\* the text before the first ':' and the text between it and the newline
CredUser(plain) == TakeUntil(plain, {CH_COLON}, Len(plain))

CredPass(plain) ==
    LET rest == SubSeq(plain, Len(CredUser(plain)) + 2, Len(plain))
    IN TakeUntil(rest, {CH_LF}, Len(rest))

\* failed logins of an unauthenticated session, read off the bytes it was sent:
\* the prompt once, then one failure notice per failed login
FailedLogins(s) == (s.seq_num[2] - INITIAL_SEQ[2] - Len(S_prompt)) \div Len(S_fail)

(* ------------------------------- claims -------------------------------- *)
\* C1: shell_execute_command runs for a frame only if, before the frame, the
\* session of the frame's (source IP, source port) was active and authenticated;
\* a frame of a client without a session or with an unauthenticated one is never
\* dispatched, and the frame that logs a session in is not dispatched itself.
C1_AuthGate ==
    [][ /\ \A k \in DOMAIN ev'.dispatch :
              /\ ev'.delivered
              /\ ev'.dispatch[k].slot \in
                    SessionsOf(sessions, ev'.frame.src_ip, ev'.frame.src_port)
              /\ sessions[ev'.dispatch[k].slot].authenticated # 0
        /\ (\A i \in SessionsOf(sessions, ev'.frame.src_ip, ev'.frame.src_port) :
               sessions[i].authenticated = 0) => ev'.dispatch = <<>>
        /\ (\E i \in Slots : sessions[i].authenticated = 0 /\ sessions'[i].authenticated # 0)
              => ev'.dispatch = <<>>
      ]_vars

\* a command of an authenticated client was dispatched
C1_Witness ==
    /\ ev.delivered
    /\ Len(ev.dispatch) = 1
    /\ ev.dispatch[1].cmd = P_ls
    /\ sessions[ev.dispatch[1].slot].authenticated # 0

\* C2: in every step the authenticated flag of every slot either keeps its
\* value or goes from false to true; no frame sets it back to false.
C2_AuthMonotone ==
    [][\A i \in Slots : sessions[i].authenticated # 0 => sessions'[i].authenticated # 0]_vars

\* an authenticated session has just received a SYN of its own client
C2_Witness ==
    /\ ev.delivered
    /\ IsSyn(ev.frame)
    /\ ForTelnet(ev.frame)
    /\ \E i \in SessionsOf(sessions, ev.frame.src_ip, ev.frame.src_port) :
          sessions[i].authenticated # 0

\* C3: the session counter and the number of active slots never exceed 5.
C3_SessionCountBounded ==
    /\ num_sessions <= NUM_SESSIONS
    /\ Cardinality({k \in Slots : sessions[k].active # 0}) <= NUM_SESSIONS

\* the table is full (five clients connected) and one of them has just logged in
C3_Witness ==
    /\ num_sessions = NUM_SESSIONS
    /\ \A k \in Slots : sessions[k].active # 0
    /\ ev.delivered
    /\ IsData(ev.frame)
    /\ \E k \in SessionsOf(sessions, ev.frame.src_ip, ev.frame.src_port) :
          sessions[k].authenticated # 0

\* C4: a whole SYN frame for the listening port from a client without a session,
\* with a free slot in the table, creates exactly one session for that client
\* (authenticated = false, ack_num = the frame's sequence number + 1, every other
\* slot untouched) and hands exactly one frame to the driver; that frame carries
\* sequence number 1000 and a payload containing "Username: ".
C4_SynCreatesSession ==
    [][ ( /\ Whole(ev')
          /\ ForTelnet(ev'.frame)
          /\ IsSyn(ev'.frame)
          /\ SessionsOf(sessions, ev'.frame.src_ip, ev'.frame.src_port) = {}
          /\ \E k \in Slots : sessions[k].active = 0 )
        => /\ \E i \in Slots :
                /\ sessions[i].active = 0
                /\ sessions'[i].active # 0
                /\ sessions'[i].authenticated = 0
                /\ sessions'[i].client_ip = ev'.frame.src_ip
                /\ sessions'[i].client_port = ev'.frame.src_port
                /\ sessions'[i].ack_num = Add32(ev'.frame.seq, 1)
                /\ sessions'[i].seq_num = Add32(INITIAL_SEQ, Len(S_prompt))
                /\ \A k \in Slots \ {i} : sessions'[k] = sessions[k]
           /\ num_sessions' = num_sessions + 1
           /\ Len(ev'.sent) = 1
           /\ ev'.sent[1].seq_num = INITIAL_SEQ
           /\ ev'.sent[1].ack_num = Add32(ev'.frame.seq, 1)
           /\ ev'.sent[1].dest_ip = ev'.frame.src_ip
           /\ ev'.sent[1].dest_port = ev'.frame.src_port
           /\ Contains(ev'.sent[1].data, <<85, 115, 101, 114, 110, 97, 109, 101, 58, 32>>)
      ]_vars

\* a SYN with sequence number 2^32 - 1 has just created a session: ack_num is 0
C4_Witness ==
    /\ Whole(ev)
    /\ IsSyn(ev.frame)
    /\ ev.frame.seq = SEQ_HIGH
    /\ Len(ev.sent) = 1
    /\ \E i \in SessionsOf(sessions, ev.frame.src_ip, ev.frame.src_port) :
          /\ sessions[i].ack_num = W32(0, 0)
          /\ sessions[i].seq_num = Add32(INITIAL_SEQ, Len(S_prompt))

\* C5: with all 5 slots active, a SYN of a further client creates no session,
\* hands no frame to the driver and leaves the 5 session records, the session
\* counter and the transmit slot index as they were.
C5_FullTableDropsSyn ==
    [][ ( /\ ev'.delivered
          /\ ForTelnet(ev'.frame)
          /\ IsSyn(ev'.frame)
          /\ \A k \in Slots : sessions[k].active # 0
          /\ SessionsOf(sessions, ev'.frame.src_ip, ev'.frame.src_port) = {} )
        => /\ sessions' = sessions
           /\ num_sessions' = num_sessions
           /\ tx_current' = tx_current
           /\ ev'.sent = <<>>
      ]_vars

\* the sixth client's SYN was read with the table full, and nothing was sent
C5_Witness ==
    /\ ev.delivered
    /\ ForTelnet(ev.frame)
    /\ IsSyn(ev.frame)
    /\ \A k \in Slots : sessions[k].active # 0
    /\ SessionsOf(sessions, ev.frame.src_ip, ev.frame.src_port) = {}
    /\ ev.sent = <<>>
    /\ ev.verify = <<>>

\* C6: a data frame (PSH set, SYN clear) of a client whose session is not
\* authenticated, carrying "<username>:<password>\n" of a registered account,
\* makes that session authenticated with session.username = <username>, and one
\* frame is sent to the client: the welcome message, which ends in "> ".
C6_LoginSucceeds ==
    [][ \A i \in Slots, acc \in Accounts :
          ( /\ ev'.delivered
            /\ ForTelnet(ev'.frame)
            /\ IsData(ev'.frame)
            /\ i \in SessionsOf(sessions, ev'.frame.src_ip, ev'.frame.src_port)
            /\ sessions[i].authenticated = 0
            /\ ev'.frame.plain = LoginLine(acc) )
          => /\ sessions'[i].authenticated # 0
             /\ sessions'[i].username = acc[1]
             /\ Len(ev'.sent) = 1
             /\ ev'.sent[1].dest_ip = ev'.frame.src_ip
             /\ ev'.sent[1].dest_port = ev'.frame.src_port
             /\ Contains(ev'.sent[1].data, <<87, 101, 108, 99, 111, 109, 101>>)
             /\ EndsWith(ev'.sent[1].data, S_gt)
      ]_vars

\* "admin:admin123\n" has just logged a session in as admin
C6_Witness ==
    /\ ev.delivered
    /\ IsData(ev.frame)
    /\ ev.frame.plain = P_admin
    /\ Len(ev.verify) = 1
    /\ Len(ev.sent) = 1
    /\ \E i \in SessionsOf(sessions, ev.frame.src_ip, ev.frame.src_port) :
          sessions[i].authenticated # 0 /\ sessions[i].username = S_admin

\* C7: a data frame of a client whose session is not authenticated, carrying
\* credentials that are not those of a registered account, leaves the session
\* unauthenticated and its username unchanged, and exactly one frame is handed
\* to the driver; its payload contains "Username:".
C7_LoginFails ==
    [][ \A i \in Slots :
          ( /\ ev'.delivered
            /\ ForTelnet(ev'.frame)
            /\ IsData(ev'.frame)
            /\ i \in SessionsOf(sessions, ev'.frame.src_ip, ev'.frame.src_port)
            /\ sessions[i].authenticated = 0
            /\ <<CredUser(ev'.frame.plain), CredPass(ev'.frame.plain)>> \notin Accounts )
          => /\ sessions'[i].authenticated = 0
             /\ sessions'[i].username = sessions[i].username
             /\ Len(ev'.sent) = 1
             /\ Contains(ev'.sent[1].data, <<85, 115, 101, 114, 110, 97, 109, 101, 58>>)
      ]_vars

\* "admin:wrong\n" was just refused: one reply, session still unauthenticated
C7_Witness ==
    /\ ev.delivered
    /\ IsData(ev.frame)
    /\ ev.frame.plain = P_wrong
    /\ Len(ev.verify) = 1
    /\ Len(ev.sent) = 1
    /\ \E i \in SessionsOf(sessions, ev.frame.src_ip, ev.frame.src_port) :
          sessions[i].authenticated = 0

\* C8: failed logins are not counted: a failed login leaves the session active,
\* unauthenticated and with the same client, and after any number (one or more)
\* of failed logins the next data frame with valid credentials authenticates it.
C8_NoLockout ==
    [][ \A i \in Slots :
          ( /\ ev'.delivered
            /\ ForTelnet(ev'.frame)
            /\ IsData(ev'.frame)
            /\ i \in SessionsOf(sessions, ev'.frame.src_ip, ev'.frame.src_port)
            /\ sessions[i].authenticated = 0 )
          => /\ sessions'[i].active # 0
             /\ sessions'[i].client_ip = sessions[i].client_ip
             /\ sessions'[i].client_port = sessions[i].client_port
             /\ IF <<CredUser(ev'.frame.plain), CredPass(ev'.frame.plain)>> \in Accounts
                THEN FailedLogins(sessions[i]) >= 1 => sessions'[i].authenticated # 0
                ELSE /\ sessions'[i].authenticated = 0
                     /\ FailedLogins(sessions'[i]) = FailedLogins(sessions[i]) + 1
      ]_vars

\* a session was logged in right after two failed logins
C8_Witness ==
    /\ ev.delivered
    /\ ev.frame.plain = P_admin
    /\ \E i \in SessionsOf(sessions, ev.frame.src_ip, ev.frame.src_port) :
          /\ sessions[i].authenticated # 0
          /\ sessions[i].seq_num =
                Add32(INITIAL_SEQ, Len(S_prompt) + (2 * Len(S_fail)) + Len(S_welcome))

\* C9: a frame that is not IPv4, not TCP or not for port 23 changes no session
\* slot and not the session counter, reaches neither auth_verify nor the
\* command dispatcher, and hands no frame to the driver.
C9_ForeignFrameDropped ==
    [][ (ev'.delivered /\ ~ForTelnet(ev'.frame))
        => /\ sessions' = sessions
           /\ num_sessions' = num_sessions
           /\ tx_current' = tx_current
           /\ ev'.verify = <<>>
           /\ ev'.dispatch = <<>>
           /\ ev'.sent = <<>>
      ]_vars

\* a login of a connected client, sent to port 80, was read and dropped
C9_Witness ==
    /\ ev.delivered
    /\ ev.frame.dest_port # TELNET_PORT
    /\ ev.frame.plain = P_admin
    /\ ev.sent = <<>>
    /\ \E i \in SessionsOf(sessions, ev.frame.src_ip, ev.frame.src_port) :
          sessions[i].authenticated = 0

\* C10: the RX cursor stays inside the ring: 0 <= rx_offset < 8192, whatever
\* status and length the ring headers held.
C10_RxCursorInRing == rx_offset \in 0..(RX_RING_SIZE - 1)

\* n rounded up to a multiple of 4
Pad4(n) == ((n + 3) \div 4) * 4

\* C11: the RX cursor is the sum of the padded sizes (header length field + 4,
\* rounded up to a multiple of 4) of the frames polled so far, modulo 8192:
\* it starts at 0 and every poll that reads a header adds that header's padded
\* size modulo 8192.
C11_RxCursorIsPaddedSum ==
    [][ rx_count' = rx_count + 1
        => rx_offset' = (rx_offset + Pad4(ev'.length + RX_HEADER_SIZE)) % RX_RING_SIZE
      ]_vars

\* the calls of the log that rtl8139_send_packet accepted
Accepted(log) == SelectSeq(log, LAMBDA e : e.slot # NoSlot)

\* C12: transmit slots are claimed round-robin: the k-th accepted send since
\* init wrote slot (k-1) mod 4, the slot index is always in 0..3, and it is the
\* slot after the one written last.
C12_TxRoundRobin ==
    /\ tx_current \in 0..(NUM_TX - 1)
    /\ \A k \in 1..Len(Accepted(ev.sent)) : Accepted(ev.sent)[k].slot = (k - 1) % NUM_TX
    /\ tx_current = Len(Accepted(ev.sent)) % NUM_TX

\* five sends were accepted: slots 0, 1, 2, 3 and 0 again
C12_Witness ==
    /\ rtl8139_io_base # 0
    /\ [k \in 1..Len(Accepted(ev.sent)) |-> Accepted(ev.sent)[k].slot] = <<0, 1, 2, 3, 0>>
    /\ tx_current = 1

\* C13: a send with length > 1500, or with the device absent, has no effect:
\* no slot is written and the slot index stays; an accepted send writes the slot
\* the index named before the call, so a rejected send in between shifts nothing.
C13_RejectedSendNoEffect ==
    [][ Len(ev'.sent) = Len(ev.sent) + 1
        => LET call == ev'.sent[Len(ev'.sent)]
           IN IF rtl8139_io_base = 0 \/ call.length > MAX_FRAME
              THEN call.slot = NoSlot /\ tx_current' = tx_current
              ELSE call.slot = tx_current /\ tx_current' = (tx_current + 1) % NUM_TX
      ]_vars

\* with the device present a send of 1501 bytes was rejected between two
\* accepted sends, which used slots 0 and 1
C13_Witness ==
    /\ rtl8139_io_base # 0
    /\ Len(ev.sent) = 3
    /\ ev.sent[1].slot = 0
    /\ ev.sent[2].slot = NoSlot /\ ev.sent[2].length = MAX_FRAME + 1
    /\ ev.sent[3].slot = 1
    /\ tx_current = 2

\* C14: for every byte sequence p and every one-byte key k,
\* decrypt_data(encrypt_data(p, k), k) is p again, with the length unchanged.
C14_CipherRoundTrip ==
    (probe.fn = "cipher" /\ probe.done)
    => /\ probe.decrypted = probe.data
       /\ Len(probe.encrypted) = Len(probe.data)
       /\ Len(probe.decrypted) = Len(probe.data)

\* three bytes went through a key that changes every one of them, and came back
C14_Witness ==
    /\ probe.fn = "cipher"
    /\ probe.done
    /\ probe.data = <<66, 0, 255>>
    /\ probe.key = 255
    /\ probe.encrypted = <<189, 255, 0>>
    /\ probe.decrypted = probe.data

\* C15: net_checksum depends on its input bytes only (a second computation over
\* the same bytes gives the same value, a 16-bit one), and flipping any single
\* bit of the input changes the checksum.
C15_ChecksumDetectsBitFlip ==
    (probe.fn = "checksum" /\ probe.done)
    => /\ probe.again = probe.sum
       /\ probe.sum \in 0..(U16 - 1)
       /\ \A i \in 1..Len(probe.data) : \A b \in 0..7 : probe.flipped[i][b] # probe.sum

\* an odd-length buffer whose sum carries out of 16 bits: 0xFFFF + 0x01 folds to 1
C15_Witness ==
    /\ probe.fn = "checksum"
    /\ probe.done
    /\ probe.data = <<255, 255, 1>>
    /\ probe.sum = 65534
    /\ probe.flipped[3][0] = 0

\* C16: a data frame (PSH set, SYN clear) with a payload of n bytes, processed
\* for an existing session, leaves session.ack_num at its value before the
\* frame plus n, modulo 2^32.
C16_AckAdvancesByPayload ==
    [][ \A i \in Slots :
          ( /\ Whole(ev')
            /\ ForTelnet(ev'.frame)
            /\ IsData(ev'.frame)
            /\ i \in SessionsOf(sessions, ev'.frame.src_ip, ev'.frame.src_port) )
          => sessions'[i].ack_num = Add32(sessions[i].ack_num, Len(ev'.frame.plain))
      ]_vars

\* C17: every frame net_send_tcp builds carries the session's seq_num as it was
\* before the call and the session's ack_num, and the call adds the payload
\* length to seq_num (modulo 2^32): the replies of one poll chain from the
\* session's seq_num before the poll (1000 for a session the poll created) to
\* its seq_num after it, each starting where the one before ended.
C17_SeqAdvancesBySent ==
    [][ \A i \in Slots :
          ( /\ ev'.delivered
            /\ ev'.sent # <<>>
            /\ i \in SessionsOf(sessions', ev'.frame.src_ip, ev'.frame.src_port) )
          => LET n == Len(ev'.sent)
                 before == IF sessions[i].active # 0 THEN sessions[i].seq_num
                           ELSE INITIAL_SEQ
             IN /\ ev'.sent[1].seq_num = before
                /\ \A k \in 1..(n - 1) :
                      ev'.sent[k + 1].seq_num =
                          Add32(ev'.sent[k].seq_num, Len(ev'.sent[k].data))
                /\ sessions'[i].seq_num =
                      Add32(ev'.sent[n].seq_num, Len(ev'.sent[n].data))
                /\ \A k \in 1..n : ev'.sent[k].ack_num = sessions'[i].ack_num
      ]_vars

\* the five replies to "ls\n" of a session that has sent the prompt (23 bytes)
\* and the welcome (22 bytes): sequence numbers 1045, 1057, 1059, 1060, 1088
C17_Witness ==
    /\ ev.delivered
    /\ ev.frame.plain = P_ls
    /\ [k \in 1..Len(ev.sent) |-> ev.sent[k].seq_num[2]] = <<1045, 1057, 1059, 1060, 1088>>
    /\ \E i \in SessionsOf(sessions, ev.frame.src_ip, ev.frame.src_port) :
          sessions[i].seq_num = W32(0, 1090)

\* C18: rtl8139_init always terminates: whatever the device shows in the CMD
\* register, the init eventually returns.
C18_InitTerminates == <>(pc = "done")

\* C19: when init did not find the NIC, every later poll and send is a no-op:
\* no frame is read or delivered, the RX cursor, the slot index and the session
\* table stay as they were, and no transmit slot is written.
C19_AbsentDeviceNoOp ==
    (pc = "done" /\ rtl8139_io_base = 0)
    => /\ rx_offset = 0
       /\ rx_count = 0
       /\ capr = 0
       /\ tx_current = 0
       /\ sessions = [k \in Slots |-> EmptySession]
       /\ num_sessions = 0
       /\ ~ev.delivered
       /\ ev.frame = NoFrame
       /\ ev.verify = <<>>
       /\ ev.dispatch = <<>>
       /\ \A k \in 1..Len(ev.sent) : ev.sent[k].slot = NoSlot

\* no device was found; since then three polls with a frame in the ring and
\* two sends were made
C19_Witness ==
    /\ pc = "done"
    /\ rtl8139_io_base = 0
    /\ polls = 3
    /\ Len(ev.sent) = 2

\* the bytes of the frame net_process_packet was given: the header's length
\* field less the 4-byte CRC
FrameBytes(e) == IF e.length >= RX_HEADER_SIZE THEN e.length - RX_HEADER_SIZE ELSE 0

\* C20: for every frame the poll hands to net_process_packet, no header field
\* and no payload byte is read beyond the bytes the frame has, and a frame too
\* short for the 14+20+20 header bytes, or whose IP total length puts payload
\* outside the frame, is dropped: no session changes, nothing is verified,
\* dispatched or sent.
C20_ReadsStayInFrame ==
    [][ ev'.delivered
        => /\ ReadEnd(sessions, MkFrame(ev'.frame, XOR_KEY),
                      (ev'.length - RX_HEADER_SIZE) % U16) <= FrameBytes(ev')
           /\ FrameBytes(ev') < ETH_HLEN + IP_HLEN + TCP_HLEN + Len(ev'.frame.plain)
                 => /\ sessions' = sessions
                    /\ num_sessions' = num_sessions
                    /\ ev'.sent = <<>>
                    /\ ev'.verify = <<>>
                    /\ ev'.dispatch = <<>>
      ]_vars

\* C21: the payload travels XOR-ed with the key 0x42 in both directions: the
\* command handed to the dispatcher is parsed from the decrypted inbound
\* payload, and every reply frame sent to an authenticated client carries its
\* text encrypted, so that applying the key to the frame's payload gives the
\* text the dispatcher printed.
C21_CipherBothDirections ==
    [][ ( /\ Whole(ev')
          /\ ForTelnet(ev'.frame)
          /\ IsData(ev'.frame)
          /\ ev'.dispatch # <<>> )
        => /\ ev'.dispatch[1].cmd = ParseCommand(ev'.frame.plain)
           /\ [k \in 1..Len(ev'.sent) |-> decrypt_data(ev'.sent[k].data, XOR_KEY)]
                 = ShellReplies(ev'.dispatch[1].cmd)
      ]_vars

RECURSIVE StripCRLF(_)
\* s without the carriage returns and line feeds at its end
StripCRLF(s) ==
    IF s # <<>> /\ s[Len(s)] \in {CH_CR, CH_LF} THEN StripCRLF(SubSeq(s, 1, Len(s) - 1))
    ELSE s

\* C22: the command text net_process_packet hands to shell_execute_command for
\* an authenticated session is the decrypted payload with its trailing CR/LF
\* removed: it never ends in '\r' or '\n' and otherwise equals the payload.
C22_CommandTextTrimmed ==
    [][ \A k \in DOMAIN ev'.dispatch :
          /\ ev'.dispatch[k].cmd = StripCRLF(ev'.frame.plain)
          /\ ev'.dispatch[k].cmd = <<>>
                \/ ev'.dispatch[k].cmd[Len(ev'.dispatch[k].cmd)] \notin {CH_CR, CH_LF}
      ]_vars

\* C23: a data frame (PSH set, SYN clear) of a client that has a session causes
\* exactly one collaborator call: auth_verify once and no dispatch when the
\* session was not authenticated, shell_execute_command once and no auth_verify
\* when it was.
C23_OneCollaboratorCall ==
    [][ \A i \in Slots :
          ( /\ ev'.delivered
            /\ ForTelnet(ev'.frame)
            /\ IsData(ev'.frame)
            /\ i \in SessionsOf(sessions, ev'.frame.src_ip, ev'.frame.src_port) )
          => IF sessions[i].authenticated = 0
             THEN Len(ev'.verify) = 1 /\ ev'.dispatch = <<>>
             ELSE Len(ev'.dispatch) = 1 /\ ev'.verify = <<>>
      ]_vars

\* the second data frame of a session: the first one logged it in with one call
\* of auth_verify, this one was dispatched once and not verified
C23_Witness ==
    /\ ev.delivered
    /\ IsData(ev.frame)
    /\ rx_count = 3
    /\ Len(ev.dispatch) = 1
    /\ ev.verify = <<>>
    /\ \E i \in SessionsOf(sessions, ev.frame.src_ip, ev.frame.src_port) :
          /\ sessions[i].authenticated # 0
          /\ ev.dispatch[1].slot = i

\* C24: on a poll with the ring non-empty the frame at the cursor is handed to
\* net_process_packet if and only if its status has the receive-OK bit and its
\* length satisfies 0 < length < 1500; delivered or not, the cursor moves on by
\* the frame's padded size (modulo the ring size) and the cursor less 16 is
\* written to the hardware; on a poll with the ring empty nothing is delivered
\* and cursor, register and sessions stay as they were.
C24_DeliveredIffValid ==
    [][ (polls' = polls + 1 /\ rtl8139_io_base # 0)
        => IF probe'.inp.empty
           THEN UNCHANGED <<rx_offset, capr, rx_count, sessions, num_sessions, tx_current, ev>>
           ELSE /\ ev'.delivered <=> ( /\ HasBit(probe'.inp.rx_status, 1)
                                       /\ probe'.inp.length > 0
                                       /\ probe'.inp.length < MAX_FRAME )
                /\ ev'.delivered => ev'.frame = probe'.inp.frame
                /\ ~ev'.delivered => ev'.frame = NoFrame /\ sessions' = sessions
                /\ rx_count' = rx_count + 1
                /\ rx_offset' % RX_RING_SIZE
                      = (rx_offset + Pad4(probe'.inp.length + RX_HEADER_SIZE)) % RX_RING_SIZE
                /\ capr' = (rx_offset' - 16) % U16
      ]_<<vars, aux>>

\* three polls of a present device: a frame of 1499 bytes with receive-OK was
\* delivered, one of 1500 bytes was skipped, and the last poll found the ring
\* empty; the cursor stands behind both frames
C24_Witness ==
    /\ rtl8139_io_base # 0
    /\ polls = 3
    /\ rx_count = 2
    /\ probe.fn = "poll"
    /\ probe.inp.empty
    /\ ev.length = MAX_FRAME
    /\ ~ev.delivered
    /\ num_sessions = 1
    /\ rx_offset = Pad4(MAX_FRAME - 1 + RX_HEADER_SIZE) + Pad4(MAX_FRAME + RX_HEADER_SIZE)

\* C25: auth_verify(username, password) is true exactly when an active account
\* has that username and that password as its registered one: no other password
\* is accepted for a built-in account, and no unknown username is accepted.
C25_VerifyExact ==
    (probe.fn = "verify" /\ probe.done)
    => (probe.result <=> <<probe.username, probe.password>> \in Accounts)

\* the accounts stored in the table
Stored(utab) == {k \in 0..(MAX_USERS - 1) : utab[k].active # 0}

\* C26: the credential table never holds more than 5 accounts: a call of
\* auth_add_user with 5 accounts stored changes nothing, and no call and no
\* frame removes, deactivates or alters an account that is stored.
C26_UserTableBounded ==
    [][ /\ num_users' <= MAX_USERS
        /\ Cardinality(Stored(users')) <= MAX_USERS
        /\ Cardinality(Stored(users)) = MAX_USERS => users' = users /\ num_users' = num_users
        /\ \A k \in Stored(users) : users'[k] = users[k]
      ]_<<vars, aux>>

\* the table is full (admin, user and three added accounts) and the last two
\* calls of auth_add_user, for a name not in the table, were made with it full
C26_Witness ==
    /\ num_users = MAX_USERS
    /\ Cardinality(Stored(users)) = MAX_USERS
    /\ probe.calls = 5
    /\ probe.username \in AddNames
    /\ \A k \in Stored(users) : users[k].username # probe.username
    /\ users[0].username = S_admin
    /\ users[1].username = S_user

\* the clients that have a session
Identities(sess) == {<<sess[k].client_ip, sess[k].client_port>> : k \in {m \in Slots : sess[m].active # 0}}

\* C27: there is no destroy path: a slot that is active stays active with the
\* same client_ip and client_port whatever frame arrives (FIN and RST
\* included), so once 5 clients have connected the set of clients that have a
\* session never changes and no further client is given one.
C27_SessionsPersist ==
    [][ /\ \A i \in Slots :
              sessions[i].active # 0
              => /\ sessions'[i].active # 0
                 /\ sessions'[i].client_ip = sessions[i].client_ip
                 /\ sessions'[i].client_port = sessions[i].client_port
        /\ Cardinality(Identities(sessions)) = NUM_SESSIONS
              => Identities(sessions') = Identities(sessions)
      ]_vars

\* five clients are connected, the first of them has just sent a RST, and its
\* session is still there
C27_Witness ==
    /\ ev.delivered
    /\ HasBit(ev.frame.flags, TCP_RST)
    /\ Cardinality(Identities(sessions)) = NUM_SESSIONS
    /\ <<ev.frame.src_ip, ev.frame.src_port>> \in Identities(sessions)
    /\ rx_count = 7
    /\ ev.sent = <<>>

\* C28: a frame is handled to completion: a call of the poll reads at most one
\* ring header; the session updates and every reply frame its frame causes
\* (those of shell_execute_command included) are made and handed to transmit
\* slots while the cursor still stands at the frame; the cursor moves only
\* after that; and no call of the poll and no header read begins before the
\* call before it has returned.
C28_RunToCompletion ==
    [][ /\ polls' # polls
            => /\ probe.at = "idle"
               /\ polls' = polls + 1
               /\ rx_count' \in {rx_count, rx_count + 1}
        /\ rx_count' # rx_count => polls' # polls
        /\ (sessions' # sessions \/ num_sessions' # num_sessions
                \/ tx_current' # tx_current \/ ev'.sent \notin {ev.sent, <<>>})
            => /\ probe.at = "process"
               /\ rx_count' = rx_count
               /\ rx_offset' = rx_offset
               /\ capr' = capr
               /\ \A k \in 1..Len(ev'.sent) : ev'.sent[k].slot # NoSlot
        /\ (rx_offset' # rx_offset \/ capr' # capr)
            => /\ probe.at = "advance"
               /\ probe'.at = "idle"
               /\ ev.delivered => ev.frame = probe.inp.frame
               /\ ev.dispatch # <<>>
                     => [k \in 1..Len(ev.sent) |-> ev.sent[k].data]
                           = ShellReplies(ev.dispatch[1].cmd)
               /\ sessions' = sessions
               /\ ev' = ev
      ]_<<vars, aux>>

\* the third frame, "ls\n" of a logged-in client, has been processed: its five
\* replies are in transmit slots 2, 3, 0, 1, 2 and the cursor still stands at
\* the frame, behind the two earlier ones
C28_Witness ==
    /\ probe.fn = "poll"
    /\ probe.at = "advance"
    /\ ev.frame.plain = P_ls
    /\ [k \in 1..Len(ev.sent) |-> ev.sent[k].slot] = <<2, 3, 0, 1, 2>>
    /\ rx_count = 3
    /\ rx_offset = Pad4(64 + RX_HEADER_SIZE) + Pad4(73 + RX_HEADER_SIZE)

\* the bytes on the wire of a frame of the sent log
WireBytes(r) ==
    net_send_tcp_packet([client_ip |-> r.dest_ip, client_port |-> r.dest_port,
                         seq_num |-> r.seq_num, ack_num |-> r.ack_num], r.data)

RECURSIVE SumWordsBE(_)
\* the 16-bit big-endian words of bytes added up, a last odd byte padded to a word
SumWordsBE(bytes) ==
    IF Len(bytes) = 0 THEN 0
    ELSE IF Len(bytes) = 1 THEN 256 * bytes[1]
    ELSE (256 * bytes[1]) + bytes[2] + SumWordsBE(SubSeq(bytes, 3, Len(bytes)))

\* the Internet checksum of bytes: the complement of the carry-folded sum
InternetChecksum(bytes) == (U16 - 1) - Fold16(SumWordsBE(bytes))

\* C30: in every frame net_send_tcp builds, the IPv4 checksum field is the
\* Internet checksum of the 20 IPv4 header bytes with that field zero, the IPv4
\* total length is 40 + the payload length, and the TCP checksum field is the
\* Internet checksum of the 20 TCP header bytes and the payload with that field
\* zero, nothing of a pseudo-header added.
C30_ChecksumsAndLength ==
    (probe.fn = "build" /\ probe.done)
    => LET pkt == probe.packet
           n == Len(probe.data)
           ip == SubSeq(pkt, ETH_HLEN + 1, ETH_HLEN + IP_HLEN)
           tcp == SubSeq(pkt, ETH_HLEN + IP_HLEN + 1, Len(pkt))
       IN /\ Len(pkt) = ETH_HLEN + IP_HLEN + TCP_HLEN + n
          /\ (256 * ip[3]) + ip[4] = IP_HLEN + TCP_HLEN + n
          /\ (256 * ip[11]) + ip[12] = InternetChecksum([ip EXCEPT ![11] = 0, ![12] = 0])
          /\ (256 * tcp[17]) + tcp[18] = InternetChecksum([tcp EXCEPT ![17] = 0, ![18] = 0])
          /\ SubSeq(tcp, TCP_HLEN + 1, Len(tcp)) = probe.data

\* the 23-byte prompt for 10.0.0.1:1025 with seq 1000 and ack 0x1FFFF: total
\* length 63, IPv4 checksum 0x61E5, TCP checksum 0xCB3E
C30_Witness ==
    /\ probe.fn = "build"
    /\ probe.done
    /\ probe.data = S_prompt
    /\ probe.session = [client_ip |-> IP_A, client_port |-> 1025,
                        seq_num |-> INITIAL_SEQ, ack_num |-> W32(1, 65535)]
    /\ SubSeq(probe.packet, 17, 18) = <<0, 63>>
    /\ SubSeq(probe.packet, 25, 26) = <<97, 229>>
    /\ SubSeq(probe.packet, 51, 52) = <<203, 62>>

\* C31 (as stated): net_checksum returns the one's complement of the
\* carry-folded sum of the 16-bit big-endian words of the sequence, an odd
\* trailing byte added as a byte padded to a word; the result is a 16-bit
\* value and the 32-bit accumulator never overflows up to length 65535.
C31_ReturnsBigEndianSum ==
    /\ probe.fn = "sum" => ~probe.carry
    /\ (probe.fn = "sum" /\ probe.done)
       => /\ probe.result \in 0..(U16 - 1)
          /\ Len(probe.buf.data) = probe.buf.length
             => probe.result = InternetChecksum(probe.buf.data)

\* C31 (amended): net_checksum returns the one's complement of the
\* carry-folded sum of the 16-bit words as the little-endian processor loads
\* them, an odd trailing byte added as the low byte of a word: the value whose
\* two bytes, exchanged, are the big-endian Internet checksum of the sequence.
\* The result is a 16-bit value and the 32-bit accumulator never overflows for
\* any length up to 65535.
C31_ReturnsByteSwappedSum ==
    /\ probe.fn = "sum" => ~probe.carry
    /\ (probe.fn = "sum" /\ probe.done)
       => /\ probe.result \in 0..(U16 - 1)
          /\ Len(probe.buf.data) = probe.buf.length
             => /\ probe.result = net_checksum(probe.buf.data)
                /\ htons(probe.result) = InternetChecksum(probe.buf.data)

\* 65535 bytes of 0xFF: the accumulator ends at 32767 * 0xFFFF + 0xFF =
\* 0x7FFE8100 without a carry, and the checksum is 0xFF00
C31_Witness ==
    /\ probe.fn = "sum"
    /\ probe.done
    /\ probe.buf.length = U16 - 1
    /\ probe.sum = W32(32766, 33024)
    /\ ~probe.carry
    /\ probe.result = 65280

\* C32: for every login payload, whatever the lengths of its parts, the
\* credentials handed to auth_verify are the bytes before the first ':' as
\* username and the bytes after that ':' up to (not including) the first
\* newline as password.
C32_CredentialsAnyLength ==
    ev.verify # <<>>
    => /\ ev.verify[1].username = CredUser(ev.frame.plain)
       /\ ev.verify[1].password = CredPass(ev.frame.plain)

\* C33: a PSH frame with a zero-length payload on an existing session calls
\* neither auth_verify nor the command dispatcher and causes no reply frame.
C33_EmptyPshIgnored ==
    (ev.delivered /\ ForTelnet(ev.frame) /\ IsData(ev.frame) /\ ev.frame.plain = <<>>)
    => /\ ev.verify = <<>>
       /\ ev.dispatch = <<>>
       /\ ev.sent = <<>>

\* C34: session lookup is keyed by the pair (client_ip, client_port): a data
\* frame is handled if and only if an active slot holds both its source
\* address and its source port, and it is handled with the authentication
\* state of that slot alone (credentials checked if that session is not
\* authenticated, command dispatched if it is); a session of the same address
\* with another port, or of the same port with another address, never matches.
C34_LookupByPair ==
    [][ ( /\ Whole(ev')
          /\ ForTelnet(ev'.frame)
          /\ IsData(ev'.frame) )
        => LET hit == SessionsOf(sessions, ev'.frame.src_ip, ev'.frame.src_port)
               i == net_get_session(sessions, ev'.frame.src_ip, ev'.frame.src_port)
           IN /\ i = NoSession <=> hit = {}
              /\ i # NoSession => i \in hit
              /\ ev'.verify # <<>> <=> \E k \in hit : sessions[k].authenticated = 0
              /\ ev'.dispatch # <<>> <=> \E k \in hit : sessions[k].authenticated # 0
              /\ \A k \in 1..Len(ev'.dispatch) : ev'.dispatch[k].slot \in hit
      ]_vars

\* 10.0.0.1:1025 is logged in; "ls\n" from 10.0.0.1:1026, which has a session
\* of its own that is not logged in, is taken as a login line and not dispatched
C34_Witness ==
    /\ ev.delivered
    /\ <<ev.frame.src_ip, ev.frame.src_port>> = <<IP_A, 1026>>
    /\ ev.frame.plain = P_ls
    /\ ev.dispatch = <<>>
    /\ Len(ev.verify) = 1
    /\ \E i \in SessionsOf(sessions, IP_A, 1025) : sessions[i].authenticated = 1
    /\ \E i \in SessionsOf(sessions, IP_A, 1026) : sessions[i].authenticated = 0

\* C35: in every reachable state no two active sessions have the same
\* (client_ip, client_port); repeated SYNs from one identity never produce a
\* second session for it.
C35_OneSessionPerIdentity ==
    \A i, k \in Slots :
        ( /\ i # k
          /\ sessions[i].active # 0
          /\ sessions[k].active # 0 )
        => <<sessions[i].client_ip, sessions[i].client_port>>
             # <<sessions[k].client_ip, sessions[k].client_port>>

\* a second SYN of 10.0.0.1:1025, polled when that client and two others have
\* sessions: still three sessions, one of them for that client
C35_Witness ==
    /\ rx_count = 4
    /\ ev.delivered
    /\ IsSyn(ev.frame)
    /\ <<ev.frame.src_ip, ev.frame.src_port>> = ID_A
    /\ ev.sent = <<>>
    /\ num_sessions = 3
    /\ Cardinality(SessionsOf(sessions, IP_A, 1025)) = 1

\* C36: session isolation: a poll, whatever frame it processes, leaves every
\* field (authenticated, username, seq_num, ack_num, active, client_ip,
\* client_port) of every session that belongs to another identity than the
\* frame's unchanged; a successful login of one client authenticates no other
\* session.
C36_SessionIsolation ==
    [][ \A i \in Slots :
          ( /\ rx_count' # rx_count
            /\ sessions[i].active # 0
            /\ <<sessions[i].client_ip, sessions[i].client_port>>
                 # <<ev'.frame.src_ip, ev'.frame.src_port>> )
          => sessions'[i] = sessions[i]
      ]_vars

\* the login of 10.0.0.1:1025 succeeds while 10.0.0.1:1026 and 10.0.0.3:1025
\* have sessions: theirs stay unauthenticated with seq_num 1023
C36_Witness ==
    /\ ev.delivered
    /\ <<ev.frame.src_ip, ev.frame.src_port>> = ID_A
    /\ ev.frame.plain = P_admin
    /\ Len(ev.sent) = 1
    /\ ev.sent[1].data = S_welcome
    /\ \E i \in SessionsOf(sessions, IP_A, 1025) : sessions[i].authenticated = 1
    /\ \E i \in SessionsOf(sessions, IP_A, 1026) :
          sessions[i].authenticated = 0 /\ sessions[i].seq_num = W32(0, 1023)
    /\ \E i \in SessionsOf(sessions, IP_B, 1025) :
          sessions[i].authenticated = 0 /\ sessions[i].seq_num = W32(0, 1023)

\* C37: a frame with the SYN flag from an identity that already has a session
\* is ignored entirely, even if it also carries PSH and a payload: no session
\* field and no counter changes, auth_verify and the command dispatcher are not
\* called, and no frame is emitted.
C37_SynOfKnownClientIgnored ==
    [][ ( /\ Whole(ev')
          /\ ForTelnet(ev'.frame)
          /\ IsSyn(ev'.frame)
          /\ SessionsOf(sessions, ev'.frame.src_ip, ev'.frame.src_port) # {} )
        => /\ sessions' = sessions
           /\ num_sessions' = num_sessions
           /\ tx_current' = tx_current
           /\ ev'.verify = <<>>
           /\ ev'.dispatch = <<>>
           /\ ev'.sent = <<>>
      ]_vars

\* SYN|PSH|ACK carrying the login line of admin, from 10.0.0.1:1025 whose
\* session is not logged in: the session stays as the SYN and the prompt left it
C37_Witness ==
    /\ ev.delivered
    /\ ev.frame.flags = TCP_SYN + TCP_PSH + TCP_ACK
    /\ ev.frame.plain = P_admin
    /\ ev.verify = <<>>
    /\ ev.sent = <<>>
    /\ \E i \in SessionsOf(sessions, IP_A, 1025) :
          /\ sessions[i].authenticated = 0
          /\ sessions[i].seq_num = W32(0, 1023)
          /\ sessions[i].ack_num = W32(0, 0)

\* C38: a frame for the listening port without the SYN flag that has no
\* matching session, or that lacks the PSH flag, changes no session field,
\* creates no session, calls neither auth_verify nor the command dispatcher
\* and emits no frame.
C38_UnmatchedFrameNoEffect ==
    [][ ( /\ Whole(ev')
          /\ ForTelnet(ev'.frame)
          /\ ~IsSyn(ev'.frame)
          /\ \/ SessionsOf(sessions, ev'.frame.src_ip, ev'.frame.src_port) = {}
             \/ ~HasBit(ev'.frame.flags, TCP_PSH) )
        => /\ sessions' = sessions
           /\ num_sessions' = num_sessions
           /\ tx_current' = tx_current
           /\ ev'.verify = <<>>
           /\ ev'.dispatch = <<>>
           /\ ev'.sent = <<>>
      ]_vars

\* an ACK frame without PSH that carries the login line of admin, from
\* 10.0.0.1:1025 whose session is not logged in, while 10.0.0.3:1025 has a
\* session too: nobody is logged in and nothing is sent
C38_Witness ==
    /\ ev.delivered
    /\ ev.frame.flags = TCP_ACK
    /\ ev.frame.plain = P_admin
    /\ ev.verify = <<>>
    /\ ev.sent = <<>>
    /\ num_sessions = 2
    /\ \A i \in Slots : sessions[i].authenticated = 0
    /\ \E i \in SessionsOf(sessions, IP_A, 1025) : sessions[i].ack_num = W32(0, 0)

RECURSIVE PayloadBytesIn(_)
\* the payload bytes of the frames of a log, added up
PayloadBytesIn(log) ==
    IF log = <<>> THEN 0 ELSE Len(Head(log).data) + PayloadBytesIn(Tail(log))

C40_CounterIsActiveCount ==
    /\ num_sessions = Cardinality({i \in Slots : sessions[i].active # 0})
    /\ net_create_session(NetState(sessions, num_sessions, tx_current), IP_B, 1028).idx = NoSession
         <=> \A i \in Slots : sessions[i].active # 0

\* the SYN of a sixth client polled when the counter is 5 and all five slots
\* are active: net_create_session fails and the counter stays 5
C40_Witness ==
    /\ rx_count = 6
    /\ ev.delivered
    /\ IsSyn(ev.frame)
    /\ SessionsOf(sessions, ev.frame.src_ip, ev.frame.src_port) = {}
    /\ ev.sent = <<>>
    /\ num_sessions = NUM_SESSIONS
    /\ \A i \in Slots : sessions[i].active = 1
    /\ net_create_session(NetState(sessions, num_sessions, tx_current),
                          ev.frame.src_ip, ev.frame.src_port).idx = NoSession

=============================================================================
